---- MODULE Spec2Model ----
(***************************************************************************)
(* Repository session engine of the Cyberpunk git client                   *)
(* (src-tauri/src/lib.rs, src-tauri/src/git_operations.rs).                *)
(*                                                                         *)
(* Three specifications share this module:                                 *)
(*   Spec         the mutating operation set on one open repository       *)
(*                (git_operations.rs), run under the session lock;         *)
(*   SpecSession  the session container (lib.rs): lock, handle, watcher,   *)
(*                settings, and the commands that run outside the lock;    *)
(*   SpecWatcher  the notification thread started by start_watcher.       *)
(***************************************************************************)
EXTENDS Integers, Sequences, FiniteSets, TLC

(***************************************************************************)
(* Bounds of the model.                                                    *)
(***************************************************************************)
\* commands issued on the repository in one behaviour
MaxOps == 3

(***************************************************************************)
(* Value domains.                                                          *)
(***************************************************************************)
Paths == {"a.txt"}
Absent == "absent"
Blobs == {"v1", "v2"}
\* a file holding the conflict markers libgit2 writes for a content conflict
Markers == "markers"
Msgs == {"m1", "m2"}
\* the messages create_commit is called with; the first commit has "m1"
CommitMsgs == {"m2"}
BranchNames == {"main"}
Labels == {"amend", "cherry-pick", "revert", "discard-all"}

NoTree == [p \in Paths |-> Absent]
NoConflict == [anc |-> Absent, our |-> Absent, their |-> Absent]
NoConflicts == [p \in Paths |-> NoConflict]
\* what a command returned, with the arguments it was called with
NoResult == [cmd |-> "none", status |-> "none", sha |-> 0, message |-> "",
             paths |-> {}, staged |-> {}, warnings |-> {}, name |-> ""]
Idle == [op |-> "none", snap |-> "none", pre |-> 0]
\* the paths unstage_files is called with
UnstagePaths == {"a.txt", "b.txt"}
\* HEAD without a commit, and HEAD on the first commit
UnbornHead == [commit |-> FALSE, tree |-> [p \in UnstagePaths |-> "absent"]]
FirstHead == [commit |-> TRUE, tree |-> [p \in UnstagePaths |-> "v1"]]
NoUnstage == [cmd |-> "none", status |-> "none", paths |-> {}, bad |-> {}]
\* what a query returned: RepositoryInfo, Vec<FileStatus> or Vec<CommitInfo>
NoQuery == [cmd |-> "none", status |-> "none", current_branch |-> <<>>,
            ahead |-> 0, behind |-> 0, is_dirty |-> FALSE,
            entries |-> {}, commits |-> {}]

VARIABLES
    \* ---- the on-disk repository (git2::Repository) ----
    objs,        \* object database: sequence of commits, id = position
    branches,    \* refs/heads/*: name -> commit id, 0 = no such ref yet
    head,        \* symbolic HEAD: a branch name
    index,       \* stage-0 index entries: path -> content
    conflicts,   \* index conflict entries: path -> [anc, our, their]
    worktree,    \* working tree: path -> content
    repoState,   \* in-progress operation files (CHERRY_PICK_HEAD, REVERT_HEAD)
    identity,    \* whether user.name / user.email are configured
    safety,      \* refs/safety/<label>/<timestamp> -> commit id
    now,         \* SystemTime::now() in whole seconds
    \* ---- the command in progress ----
    cur,         \* the destructive command between its snapshot and its change
    result,      \* what the command that returned in the last step returned
    written,     \* history: every (ref name, target) create_safety_ref wrote
    ops,         \* commands issued so far
    \* ---- the notification thread of start_watcher ----
    chan,        \* the mpsc channel from the watcher to the thread
    wpc,         \* where the thread is: "recv", "sleep", "drain", "exit"
    emitted,     \* "git-state-changed" events emitted so far
    alive,       \* the watcher (the channel's sender) has not been dropped
    arrived,     \* filesystem events the watcher has sent so far
    cb,          \* history: the burst the thread is debouncing, 0 = none
    nb,          \* history: bursts begun so far
    emitsOf,     \* history: burst -> notifications emitted for it
    sizeOf,      \* history: burst -> events that belong to it
    \* ---- the session container: App(Mutex<AppState>) and its commands ----
    lock,                    \* the Mutex: the task holding it, "free" if none
    state_repo,              \* AppState.repo: path of the open handle, 0 = None
    state_watcher,           \* AppState.watcher: path it watches, 0 = None
    recent_repositories,     \* settings.recent_repositories
    last_opened_repository,  \* settings.last_opened_repository, 0 = None
    disk,                    \* what each path is on disk
    tasks,                   \* the command each task runs and where it is
    sresult,                 \* what the command that returned in the last step returned
    sops,                    \* commands issued so far
    wthreads,                \* every notification thread start_watcher spawned
    \* ---- the origin remote, as git pull sees it ----
    origin,                  \* tip of the branch in the origin repository
    remoteRef,               \* refs/remotes/origin/<branch>, the fetched tip
    pullMode,                \* how the installed git reconciles divergent branches
    merged,                  \* second parents: pairs <<merge commit, other parent>>
    pushed,                  \* commits others have pushed to origin so far
    \* ---- what the read-only queries look at, and what they answered ----
    detached,                \* HEAD names a commit, not a branch
    tracking,                \* branch.<name>.remote / .merge are configured
    ignored,                 \* the paths .gitignore matches
    qresult,                 \* what the query that returned in the last step returned
    changes,                 \* changes made to the repository from outside so far
    \* ---- the index unstage_files works on, over several paths ----
    uindex,                  \* stage-0 index entries: path -> content
    uhead,                   \* whether HEAD has a commit, and the commit's tree
    uresult                  \* what unstage_files returned in the last step

repoCore == <<objs, branches, head, index, conflicts, worktree, repoState>>
repoVars == <<objs, branches, head, index, conflicts, worktree, repoState,
              identity, safety, now, cur, result, written, ops>>
watchVars == <<chan, wpc, emitted, alive, arrived, cb, nb, emitsOf, sizeOf>>
settings == <<recent_repositories, last_opened_repository>>
sessVars == <<lock, state_repo, state_watcher, recent_repositories,
              last_opened_repository, disk, tasks, sresult, sops, wthreads>>
pullVars == <<origin, remoteRef, pullMode, merged, pushed>>
infoVars == <<detached, tracking, ignored, qresult, changes>>
unstageVars == <<uindex, uhead, uresult>>
vars == <<repoVars, watchVars, sessVars, pullVars, infoVars, unstageVars>>

\* what the commands on the repository leave alone
notRepo == <<watchVars, sessVars, pullVars, infoVars, unstageVars>>
\* what the notification thread leaves alone
notWatcher == <<repoVars, sessVars, pullVars, infoVars, unstageVars>>
\* what the session commands leave alone
notSession == <<repoVars, watchVars, pullVars, infoVars, unstageVars>>

(***************************************************************************)
(* Helpers over the repository state.                                      *)
(***************************************************************************)
Upd(f, k, v) == [x \in DOMAIN f \cup {k} |-> IF x = k THEN v ELSE f[x]]

\* one more command is issued
Issue == ops < MaxOps /\ ops' = ops + 1

Returns(cmd, status) ==
    result' = [NoResult EXCEPT !.cmd = cmd, !.status = status]

\* repo.head() + peel_to_commit(): 0 when the branch is unborn
HeadCommit == branches[head]

TreeOf(c) == IF c = 0 THEN NoTree ELSE objs[c].tree

HeadTree == TreeOf(HeadCommit)

ParentTree(c) == TreeOf(objs[c].parent)

\* index.has_conflicts()
has_conflicts == \E p \in Paths : conflicts[p] # NoConflict

ConflictPaths == {p \in Paths : conflicts[p] # NoConflict}

\* git_operations::get_conflicts: one entry per index conflict
get_conflicts ==
    { [path |-> p,
       our_status |-> IF conflicts[p].our # Absent THEN "modified" ELSE "deleted",
       their_status |-> IF conflicts[p].their # Absent THEN "modified" ELSE "deleted"]
      : p \in ConflictPaths }

\* The cherry-pick/revert state machine of the specification, read off the
\* repository: the backend's operation state and the index conflicts.
OpState ==
    IF repoState = "none" THEN "Idle"
    ELSE IF has_conflicts THEN "ConflictPending"
    ELSE "InProgress"

(***************************************************************************)
(* Safety Snapshot Manager: git_operations::create_safety_ref.             *)
(***************************************************************************)
\* create_safety_ref as it would be if it returned Ok without writing the ref
create_safety_ref_unwritten(action_name, refOk) ==
    [ok |-> TRUE, snap |-> "noop", refs |-> safety, wrote |-> {}]

\* create_safety_ref as it would be if a missing HEAD were reported as an error
create_safety_ref_unborn_fails(action_name, refOk) ==
    IF HeadCommit = 0 \/ ~refOk
    THEN [ok |-> FALSE, snap |-> "failed", refs |-> safety, wrote |-> {}]
    ELSE [ok |-> TRUE, snap |-> "written",
          refs |-> Upd(safety, <<action_name, now>>, HeadCommit),
          wrote |-> {[key |-> <<action_name, now>>, target |-> HeadCommit]}]

\* What create_safety_ref(repo, action_name) does; refOk is whether
\* repo.reference(..) succeeds.  The ref is written with force = true.
create_safety_ref(action_name, refOk) ==
    IF HeadCommit = 0
    THEN [ok |-> TRUE, snap |-> "noop", refs |-> safety, wrote |-> {}]
    ELSE IF ~refOk
    THEN [ok |-> FALSE, snap |-> "failed", refs |-> safety, wrote |-> {}]
    ELSE [ok |-> TRUE, snap |-> "written",
          refs |-> Upd(safety, <<action_name, now>>, HeadCommit),
          wrote |-> {[key |-> <<action_name, now>>, target |-> HeadCommit]}]

\* The first statement of a destructive command: the snapshot.  `fatal` is
\* whether the command propagates a snapshot failure (`?`) or drops it (`let _`).
BeginDestructive(op, fatal) ==
    /\ Issue
    /\ \E refOk \in BOOLEAN :
         LET r == create_safety_ref(op, refOk) IN
           /\ safety' = r.refs
           /\ written' = written \cup r.wrote
           /\ IF ~r.ok /\ fatal
              THEN /\ cur' = Idle
                   /\ Returns(op, "error")
              ELSE /\ cur' = [op |-> op, snap |-> r.snap, pre |-> HeadCommit]
                   /\ result' = NoResult
    /\ UNCHANGED <<repoCore, identity, now>>
    /\ UNCHANGED notRepo

(***************************************************************************)
(* The backend's three-way apply (git2 Repository::cherrypick / revert),   *)
(* at file granularity: base, ours (HEAD) and theirs per path.             *)
(***************************************************************************)
MergeFile(b, o, t) ==
    IF t = b THEN [conflict |-> FALSE, blob |-> o]
    ELSE IF o = b \/ o = t THEN [conflict |-> FALSE, blob |-> t]
    ELSE [conflict |-> TRUE, blob |-> Absent]

\* paths the apply would write
Touched(base, theirs) ==
    {p \in Paths :
        LET m == MergeFile(base[p], HeadTree[p], theirs[p])
        IN  m.conflict \/ m.blob # HeadTree[p]}

\* uncommitted change at p: the backend refuses to overwrite it
Dirty(p) ==
    index[p] # HeadTree[p] \/ worktree[p] # HeadTree[p] \/ conflicts[p] # NoConflict

\* The result of repo.cherrypick(commit) / repo.revert(commit): on error the
\* backend leaves index and working tree as they were and removes its
\* operation state files (CHERRY_PICK_HEAD / REVERT_HEAD, MERGE_MSG); on
\* success the index and the working tree hold the merge result, conflicts
\* included.
BackendApply(base, theirs) ==
    LET T == Touched(base, theirs)
        M(p) == MergeFile(base[p], HeadTree[p], theirs[p])
    IN  [ok |-> HeadCommit # 0 /\ \A p \in T : ~Dirty(p),
         index |-> [p \in Paths |->
                      IF p \in T THEN M(p).blob ELSE index[p]],
         conflicts |-> [p \in Paths |->
                      IF p \in T /\ M(p).conflict
                      THEN [anc |-> base[p], our |-> HeadTree[p], their |-> theirs[p]]
                      ELSE conflicts[p]],
         worktree |-> [p \in Paths |->
                      IF p \notin T THEN worktree[p]
                      ELSE IF ~M(p).conflict THEN M(p).blob
                      ELSE IF HeadTree[p] # Absent /\ theirs[p] # Absent THEN Markers
                      ELSE IF HeadTree[p] # Absent THEN HeadTree[p]
                      ELSE theirs[p]]]

\* The object database is content-addressed: the id of a commit is the hash of
\* its parent, message, tree and signature (who, and when to the second), so
\* writing a commit equal to a stored one yields the stored one's id.
Oid(c) ==
    IF \E i \in DOMAIN objs : objs[i] = c
    THEN CHOOSE i \in DOMAIN objs : objs[i] = c
    ELSE Len(objs) + 1

Store(c) == objs' = IF Oid(c) \in DOMAIN objs THEN objs ELSE Append(objs, c)

\* a commit signed by the user now (repo.signature(), Signature::now)
Signed(parent, message, tree) ==
    [parent |-> parent, msg |-> message, tree |-> tree,
     author |-> "user", time |-> now]

\* repo.commit as it would be if it were given no parents
CommitAsRoot(parent, message, tree) ==
    /\ Store(Signed(0, message, tree))
    /\ branches' = [branches EXCEPT ![head] = Oid(Signed(0, message, tree))]

\* repo.commit(Some("HEAD"), .., message, tree, parents): the commit object is
\* written and the branch HEAD names moves to it.
CommitOnHead(parent, message, tree) ==
    /\ Store(Signed(parent, message, tree))
    /\ branches' = [branches EXCEPT ![head] = Oid(Signed(parent, message, tree))]

ReturnsOf(cmd, status, sha, message) ==
    result' = [NoResult EXCEPT !.cmd = cmd, !.status = status, !.sha = sha,
                               !.message = message]

\* a command that was given paths to stage returns, s being the StageResult
ReturnsStaged(cmd, status, message, paths, s) ==
    result' = [NoResult EXCEPT !.cmd = cmd, !.status = status,
                               !.message = message, !.paths = paths,
                               !.staged = s.staged, !.warnings = s.warnings]

\* create_commit returns Ok(commit_id.to_string())
ReturnsCommit(sha, message, paths, s) ==
    result' = [NoResult EXCEPT !.cmd = "commit", !.status = "ok", !.sha = sha,
                               !.message = message, !.paths = paths,
                               !.staged = s.staged, !.warnings = s.warnings]

RevertMessage(m) == <<"Revert", m>>

(***************************************************************************)
(* Mutating operation set (git_operations.rs).                             *)
(***************************************************************************)
\* the requested paths that exist on disk
Existing(paths) == {p \in paths : worktree[p] # Absent}

\* stage_files as it would be if a path missing on disk were passed over:
\* left in the index, and no warning recorded
StageOutcome_missing_skipped(paths, failed) ==
    LET done == Existing(paths) \ failed IN
    [index |-> [p \in Paths |-> IF p \in done THEN worktree[p] ELSE index[p]],
     conflicts |-> [p \in Paths |-> IF p \in done THEN NoConflict ELSE conflicts[p]],
     staged |-> done,
     warnings |-> failed]

\* git_operations::stage_files: existing paths are added to the index, missing
\* ones removed from it with a warning; then the index is written.  `failed`
\* are the existing paths for which index.add_path returns an error: they
\* stay as they are in the index and get a warning too.
StageOutcome(paths, failed) ==
    LET done == paths \ failed IN
    [index |-> [p \in Paths |-> IF p \in done THEN worktree[p] ELSE index[p]],
     conflicts |-> [p \in Paths |-> IF p \in done THEN NoConflict ELSE conflicts[p]],
     staged |-> Existing(paths) \ failed,
     warnings |-> (paths \ Existing(paths)) \cup failed]

\* create_commit with the test for an all-warnings staging left out
NothingStaged_unchecked(s) == FALSE

\* stage_result.staged.is_empty() && !stage_result.warnings.is_empty()
NothingStaged(s) == s.staged = {} /\ s.warnings # {}

\* command stage_files
stage_files ==
    /\ cur = Idle
    /\ Issue
    /\ \E paths \in SUBSET Paths :
       \E failed \in SUBSET Existing(paths) :
         LET s == StageOutcome(paths, failed) IN
           /\ index' = s.index
           /\ conflicts' = s.conflicts
           /\ ReturnsStaged("stage", "ok", "", paths, s)
    /\ UNCHANGED <<objs, branches, head, worktree, repoState, identity, safety,
                   now, cur, written>>
    /\ UNCHANGED notRepo

\* command create_commit (lib.rs): stage the requested files, refuse when
\* nothing could be staged, then git_operations::create_commit.
create_commit ==
    /\ cur = Idle
    /\ Issue
    /\ \E paths \in SUBSET Paths, message \in CommitMsgs :
       \E failed \in SUBSET Existing(paths) :
         LET s == StageOutcome(paths, failed)
             unmerged == \E p \in Paths : s.conflicts[p] # NoConflict
         IN
           /\ index' = s.index
           /\ conflicts' = s.conflicts
           /\ IF NothingStaged(s)
              THEN /\ ReturnsStaged("commit", "error", message, paths, s)
                   /\ UNCHANGED <<objs, branches>>
              ELSE IF unmerged
              THEN \* index.write_tree() fails on an unmerged index
                   /\ ReturnsStaged("commit", "error", message, paths, s)
                   /\ UNCHANGED <<objs, branches>>
              ELSE /\ CommitOnHead(HeadCommit, message, s.index)
                   /\ ReturnsCommit(Oid(Signed(HeadCommit, message, s.index)),
                                    message, paths, s)
    /\ UNCHANGED <<head, worktree, repoState, identity, safety, now, cur, written>>
    /\ UNCHANGED notRepo

\* Commit::amend as if it committed on top of the tip
amend_as_child(t, message, tree) == CommitOnHead(t, message, tree)

\* last_commit.amend(Some("HEAD"), sig, sig, None, Some(message), Some(&tree)):
\* a commit with the parents of t, the new message, tree and signature
amend(t, message, tree) == CommitOnHead(objs[t].parent, message, tree)

\* amend_last_commit, first statement
amend_begin ==
    /\ cur = Idle
    /\ BeginDestructive("amend", TRUE)

\* amend_last_commit, after the snapshot
amend_finish ==
    /\ cur.op = "amend"
    /\ cur' = Idle
    /\ \E message \in Msgs :
         IF has_conflicts \/ HeadCommit = 0
         THEN /\ ReturnsOf("amend", "error", 0, message)
              /\ UNCHANGED <<objs, branches>>
         ELSE /\ amend(HeadCommit, message, index)
              /\ ReturnsOf("amend", "ok", 0, message)
    /\ UNCHANGED <<head, index, conflicts, worktree, repoState, identity, safety,
                   now, written, ops>>
    /\ UNCHANGED notRepo

\* cherry_pick / revert_commit without the has_conflicts test: write_tree then
\* fails on the unmerged index and the command returns a plain error
AfterApply_unchecked(a) ==
    IF (\E p \in Paths : a.conflicts[p] # NoConflict) \/ ~identity THEN "error"
    ELSE "ok"

\* What cherry_pick / revert_commit return once the backend has applied the
\* commit: the conflicts message, the error of repo.signature() (which has no
\* fallback identity here), or Ok after the commit.
AfterApply(a) ==
    IF \E p \in Paths : a.conflicts[p] # NoConflict THEN "conflicts"
    ELSE IF ~identity THEN "error"
    ELSE "ok"

\* cherry_pick / revert_commit after the snapshot: find the commit, let the
\* backend apply it, stop on conflicts, else commit and clean the state up.
\* sha = 0 stands for a sha that names no commit.
PickFinish(op, sha) ==
    LET base == IF op = "cherry-pick" THEN ParentTree(sha) ELSE TreeOf(sha)
        theirs == IF op = "cherry-pick" THEN TreeOf(sha) ELSE ParentTree(sha)
        a == BackendApply(base, theirs)
        message == IF op = "cherry-pick" THEN objs[sha].msg
                   ELSE RevertMessage(objs[sha].msg)
    IN
    /\ cur.op = op
    /\ cur' = Idle
    /\ IF sha = 0
       THEN /\ ReturnsOf(op, "error", sha, "")
            /\ UNCHANGED <<objs, branches, index, conflicts, worktree, repoState>>
       ELSE IF ~a.ok
       THEN /\ ReturnsOf(op, "error", sha, "")
            /\ repoState' = "none"
            /\ UNCHANGED <<objs, branches, index, conflicts, worktree>>
       ELSE /\ index' = a.index
            /\ conflicts' = a.conflicts
            /\ worktree' = a.worktree
            /\ ReturnsOf(op, AfterApply(a), sha, "")
            /\ IF AfterApply(a) = "ok"
               THEN /\ CommitOnHead(HeadCommit, message, a.index)
                    /\ repoState' = "none"
               ELSE /\ repoState' = op
                    /\ UNCHANGED <<objs, branches>>
    /\ UNCHANGED <<head, identity, safety, now, written, ops>>
    /\ UNCHANGED notRepo

cherry_pick_begin ==
    /\ cur = Idle
    /\ BeginDestructive("cherry-pick", TRUE)

cherry_pick_finish == \E sha \in 0..Len(objs) : PickFinish("cherry-pick", sha)

revert_commit_begin ==
    /\ cur = Idle
    /\ BeginDestructive("revert", TRUE)

revert_commit_finish == \E sha \in 0..Len(objs) : PickFinish("revert", sha)

\* a checkout of tree that keeps every file present in the working tree
CheckoutSafe(tree, idx, wt) ==
    [index |-> idx,
     worktree |-> [p \in Paths |-> IF wt[p] = Absent THEN tree[p] ELSE wt[p]]]

\* CheckoutBuilder::force() checkout of tree: every file of the tree is written
\* over what the working tree and the index hold; a file of the working tree
\* that is in the index but not in the tree is removed from both; a file in
\* neither (untracked) is left alone.
CheckoutForce(tree, idx, wt) ==
    LET staged_only(p) == tree[p] = Absent /\ idx[p] # Absent /\ wt[p] # Absent
    IN [index |-> [p \in Paths |->
                     IF tree[p] # Absent THEN tree[p]
                     ELSE IF staged_only(p) THEN Absent ELSE idx[p]],
        worktree |-> [p \in Paths |->
                     IF tree[p] # Absent THEN tree[p]
                     ELSE IF staged_only(p) THEN Absent ELSE wt[p]]]

\* discard_all_changes, first statement: the snapshot's failure is dropped
discard_all_begin ==
    /\ cur = Idle
    /\ BeginDestructive("discard-all", FALSE)

\* discard_all_changes: forced checkout of HEAD
discard_all_finish ==
    /\ cur.op = "discard-all"
    /\ cur' = Idle
    /\ IF HeadCommit = 0
       THEN /\ Returns("discard-all", "error")
            /\ UNCHANGED <<index, conflicts, worktree>>
       ELSE /\ index' = CheckoutForce(HeadTree, index, worktree).index
            /\ worktree' = CheckoutForce(HeadTree, index, worktree).worktree
            /\ conflicts' = NoConflicts
            /\ Returns("discard-all", "ok")
    /\ UNCHANGED <<objs, branches, head, repoState, identity, safety, now, written,
                   ops>>
    /\ UNCHANGED notRepo

\* resolve_conflict as it would be if it staged the side the flag names
resolve_takes_side(path, use_ours) ==
    LET side == IF use_ours THEN conflicts[path].our ELSE conflicts[path].their
    IN IF side = Absent
       THEN [ok |-> FALSE, index |-> index, conflicts |-> conflicts]
       ELSE [ok |-> TRUE,
             index |-> [index EXCEPT ![path] = side],
             conflicts |-> [conflicts EXCEPT ![path] = NoConflict]]

\* index.add_path(path), index.write(): the file on disk is staged and the
\* conflict entries of the path are dropped; add_path fails without a file
resolve(path, use_ours) ==
    IF worktree[path] = Absent
    THEN [ok |-> FALSE, index |-> index, conflicts |-> conflicts]
    ELSE [ok |-> TRUE,
          index |-> [index EXCEPT ![path] = worktree[path]],
          conflicts |-> [conflicts EXCEPT ![path] = NoConflict]]

\* git_operations::resolve_conflict(repo, path, _use_ours)
resolve_conflict ==
    /\ cur = Idle
    /\ Issue
    /\ \E path \in Paths, use_ours \in BOOLEAN :
         LET r == resolve(path, use_ours) IN
           /\ index' = r.index
           /\ conflicts' = r.conflicts
           /\ result' = [NoResult EXCEPT !.cmd = "resolve",
                                         !.status = IF r.ok THEN "ok" ELSE "error",
                                         !.paths = {path}]
    /\ UNCHANGED <<objs, branches, head, worktree, repoState, identity, safety,
                   now, cur, written>>
    /\ UNCHANGED notRepo

(***************************************************************************)
(* Environment of the repository.                                          *)
(***************************************************************************)
\* the user edits, creates or deletes a file in the working tree; an edit no
\* command follows is seen by none, so edits stop with the commands
ExternalEdit ==
    /\ cur = Idle
    /\ ops < MaxOps
    /\ \E p \in Paths, c \in Blobs \cup {Absent} :
         /\ worktree[p] # c
         /\ worktree' = [worktree EXCEPT ![p] = c]
    /\ result' = NoResult
    /\ UNCHANGED <<objs, branches, head, index, conflicts, repoState, identity,
                   safety, now, cur, written, ops>>
    /\ UNCHANGED notRepo

\* The clock moves on to the next second.  A second in which no safety ref and
\* no commit is written cannot be told from the one before it, so only seconds
\* that hold one are followed by a new one, and only while a command can still
\* be issued.
Tick ==
    /\ cur = Idle
    /\ ops < MaxOps
    /\ \/ \E k \in DOMAIN safety : k[2] = now
       \/ \E i \in DOMAIN objs : objs[i].time = now
    /\ now' = now + 1
    /\ result' = NoResult
    /\ UNCHANGED <<repoCore, identity, safety, cur, written, ops>>
    /\ UNCHANGED notRepo

(***************************************************************************)
(* Remote sync: git_operations::pull_changes runs `git pull origin <branch>`*)
(* in the working directory.  objs holds every commit of the model, those   *)
(* made in origin included; the local repository sees them once fetched.   *)
(***************************************************************************)
\* commits others push to origin in one behaviour
MaxPushes == 2

\* What git pull does with divergent branches is left to the installed git
\* and its configuration, no --ff-only is passed: "refuse" (pull.ff = only,
\* or no pull.rebase / pull.ff setting with git 2.33 and later) or "merge"
\* (pull.rebase = false, or git before 2.33)
PullModes == {"refuse", "merge"}

RECURSIVE Ancestors(_)
\* the commits reachable from c, c included
Ancestors(c) ==
    IF c = 0 THEN {}
    ELSE {c} \cup Ancestors(objs[c].parent)
             \cup UNION {Ancestors(m[2]) : m \in {x \in merged : x[1] = c}}

Max(S) == CHOOSE x \in S : \A y \in S : y <= x

\* the best common ancestor of two commits (commit ids grow with time)
MergeBase(a, b) ==
    LET common == Ancestors(a) \cap Ancestors(b)
    IN  IF common = {} THEN 0 ELSE Max(common)

\* repo.graph_ahead_behind(local, upstream), its second component
BehindCount == Cardinality(Ancestors(remoteRef) \ Ancestors(HeadCommit))

\* the history of local and origin: what git pull has to do
Relation(h, o) ==
    IF o \in Ancestors(h) THEN "up-to-date"
    ELSE IF h \in Ancestors(o) THEN "behind"
    ELSE "diverged"

\* someone else pushes a commit to origin
OriginPush ==
    /\ cur = Idle
    /\ pushed < MaxPushes
    /\ pushed' = pushed + 1
    /\ \E tree \in [Paths -> Blobs], message \in Msgs :
         objs' = Append(objs, [parent |-> origin, msg |-> message, tree |-> tree,
                               author |-> "other", time |-> now])
    /\ origin' = Len(objs) + 1
    /\ result' = NoResult
    /\ UNCHANGED <<branches, head, index, conflicts, worktree, repoState, identity,
                   safety, now, cur, written, ops>>
    /\ UNCHANGED <<remoteRef, pullMode, merged>>
    /\ UNCHANGED <<watchVars, sessVars, infoVars, unstageVars>>

\* git refuses to update path p to blob `to`: it is unmerged, staged with
\* another content, or its file is there with changes that are not staged
\* (a file missing from the working tree is written again)
GitBlocked(p, to) ==
    \/ conflicts[p] # NoConflict
    \/ index[p] # HeadTree[p] /\ index[p] # to
    \/ worktree[p] # index[p] /\ worktree[p] # Absent

\* git pull fast-forwards: the branch moves to the fetched tip and the files
\* that differ are checked out, unless one of them has local changes
FastForward(o) ==
    LET T == {p \in Paths : TreeOf(o)[p] # HeadTree[p]} IN
    IF \E p \in T : GitBlocked(p, TreeOf(o)[p])
    THEN /\ ReturnsOf("pull", "error", 0, "local changes would be overwritten")
         /\ UNCHANGED <<objs, branches, index, conflicts, worktree, repoState, merged>>
    ELSE /\ branches' = [branches EXCEPT ![head] = o]
         /\ index' = [p \in Paths |-> IF p \in T THEN TreeOf(o)[p] ELSE index[p]]
         /\ worktree' = [p \in Paths |-> IF p \in T THEN TreeOf(o)[p] ELSE worktree[p]]
         /\ Returns("pull", "ok")
         /\ UNCHANGED <<objs, conflicts, repoState, merged>>

\* git pull merges the fetched tip into the branch
MergeRemote(o) ==
    LET base == TreeOf(MergeBase(HeadCommit, o))
        a == BackendApply(base, TreeOf(o))
        blocked == \E p \in Touched(base, TreeOf(o)) : GitBlocked(p, a.index[p])
    IN
    IF blocked
    THEN /\ ReturnsOf("pull", "error", 0, "local changes would be overwritten")
         /\ UNCHANGED <<objs, branches, index, conflicts, worktree, repoState, merged>>
    ELSE /\ index' = a.index
         /\ conflicts' = a.conflicts
         /\ worktree' = a.worktree
         /\ IF \E p \in Paths : a.conflicts[p] # NoConflict
            THEN /\ repoState' = "merge"
                 /\ ReturnsOf("pull", "error", 0, "automatic merge failed")
                 /\ UNCHANGED <<objs, branches, merged>>
            ELSE /\ CommitOnHead(HeadCommit, "Merge", a.index)
                 /\ merged' = merged \cup {<<Oid(Signed(HeadCommit, "Merge", a.index)), o>>}
                 /\ Returns("pull", "ok")
                 /\ UNCHANGED repoState

\* git_operations::pull_changes; fetched = the fetch from origin succeeded.
\* The error returned is what git wrote to stderr.
pull_changes ==
    /\ cur = Idle
    /\ Issue
    /\ \E fetched \in BOOLEAN :
         IF HeadCommit = 0 \/ ~fetched
         THEN /\ ReturnsOf("pull", "error", 0, "could not fetch")
              /\ UNCHANGED <<objs, branches, index, conflicts, worktree, repoState,
                             merged, remoteRef>>
         ELSE /\ remoteRef' = origin
              /\ IF Relation(HeadCommit, origin) = "up-to-date"
                 THEN /\ Returns("pull", "ok")
                      /\ UNCHANGED <<objs, branches, index, conflicts, worktree,
                                     repoState, merged>>
                 ELSE IF Relation(HeadCommit, origin) = "behind"
                 THEN FastForward(origin)
                 ELSE IF pullMode = "refuse"
                 THEN /\ ReturnsOf("pull", "error", 0, "divergent branches")
                      /\ UNCHANGED <<objs, branches, index, conflicts, worktree,
                                     repoState, merged>>
                 ELSE MergeRemote(origin)
    /\ UNCHANGED <<head, identity, safety, now, cur, written>>
    /\ UNCHANGED <<origin, pullMode, pushed>>
    /\ UNCHANGED <<watchVars, sessVars, infoVars, unstageVars>>

(***************************************************************************)
(* Spec: one open repository and the commands on it.                       *)
(***************************************************************************)
\* the first commit, made before the session started
InitialCommit == [parent |-> 0, msg |-> "m1", tree |-> [p \in Paths |-> "v1"],
                  author |-> "user", time |-> 0]

(***************************************************************************)
(* Session State Container (lib.rs): the commands that replace the handle  *)
(* and the watcher, and the commands that run outside the lock.            *)
(***************************************************************************)
\* commands issued on the session in one behaviour
MaxSessionOps == 3

\* recent_repositories.truncate(10)
RecentCap == 10

AllPaths == 1..(RecentCap + 1)
\* the paths commands are issued for: the first of the recent list, a later
\* entry, an entry whose directory is gone, and a path not in the list
TargetPaths == {1, 2, 3, RecentCap + 1}
Tasks == {"t1", "t2"}
Free == "free"
\* what the session held when a command took the lock it installs under
NoHeld == [repo |-> 0, watcher |-> 0]
IdleTask == [cmd |-> "none", pc |-> "idle", path |-> 0, before |-> NoHeld]
\* kind and message: the AppError of a failure
NoSResult == [cmd |-> "none", status |-> "none", path |-> 0,
              kind |-> "", message |-> ""]

\* the AppError variant a failure of the VCS backend is returned in:
\* map_err(AppError::Git)
BackendErrorKind == "Git"

IssueS == sops < MaxSessionOps /\ sops' = sops + 1

\* a command fails with AppError kind(message)
SFails(cmd, path, kind, message) ==
    sresult' = [cmd |-> cmd, status |-> "error", path |-> path,
                kind |-> kind, message |-> message]

\* a command returns Ok, or the error of the backend call it made
SReturns(cmd, status, path) ==
    IF status = "error" THEN SFails(cmd, path, BackendErrorKind, "backend")
    ELSE sresult' = [NoSResult EXCEPT !.cmd = cmd, !.status = status, !.path = path]

Contains(seq, x) == \E i \in 1..Len(seq) : seq[i] = x

\* Vec::retain(|p| p != path)
RECURSIVE Retain(_, _)
Retain(seq, x) ==
    IF seq = <<>> THEN <<>>
    ELSE IF Head(seq) = x THEN Retain(Tail(seq), x)
    ELSE <<Head(seq)>> \o Retain(Tail(seq), x)

\* the handle and the watcher of the session
Held == [repo |-> state_repo, watcher |-> state_watcher]

\* start_watcher(app_handle, repo_path): None without a .git directory or when
\* the watcher cannot be constructed, else a watcher bound to the path
start_watcher(path, built) ==
    IF disk[path] # "repo" \/ ~built THEN 0 ELSE path

\* open_repository lines 151-157: insert at the front unless present, cap at 10
OpenRecent(path) ==
    IF Contains(recent_repositories, path) THEN recent_repositories
    ELSE LET r == <<path>> \o recent_repositories
         IN  IF Len(r) > RecentCap THEN SubSeq(r, 1, RecentCap) ELSE r

\* clone_repository lines 213-215: insert at the front unless present
CloneRecent(path) ==
    IF Contains(recent_repositories, path) THEN recent_repositories
    ELSE <<path>> \o recent_repositories

\* open_repository: take the lock and open the path.  On an error the command
\* returns at once (pruning a path that no longer exists from the settings).
open_enter(t) ==
    /\ tasks[t] = IdleTask
    /\ lock = Free
    /\ IssueS
    /\ \E path \in TargetPaths, infoOk \in BOOLEAN :
         IF disk[path] = "repo" /\ infoOk
         THEN /\ lock' = t
              /\ tasks' = [tasks EXCEPT ![t] = [cmd |-> "open", pc |-> "set_repo",
                                                path |-> path,
                                                before |-> Held]]
              /\ sresult' = NoSResult
              /\ UNCHANGED settings
         ELSE /\ SReturns("open", "error", path)
              /\ UNCHANGED <<lock, tasks>>
              /\ IF disk[path] = "missing"
                 THEN /\ recent_repositories' = Retain(recent_repositories, path)
                      /\ last_opened_repository' =
                           IF last_opened_repository = path THEN 0
                           ELSE last_opened_repository
                 ELSE UNCHANGED settings
    /\ UNCHANGED <<state_repo, state_watcher, disk>>
    /\ UNCHANGED <<notSession, wthreads>>

\* state.repo = Some(repo)
SetRepo(t) ==
    /\ tasks[t].pc = "set_repo"
    /\ lock = t
    /\ state_repo' = tasks[t].path
    /\ tasks' = [tasks EXCEPT ![t].pc = "set_watcher"]
    /\ sresult' = NoSResult
    /\ UNCHANGED <<lock, state_watcher, settings, disk, sops>>
    /\ UNCHANGED <<notSession, wthreads>>

\* the thread start_watcher spawns for a watcher bound to path: it blocks in
\* rx.recv(), the channel is empty and the watcher holds the sender
NewThread(path) == [path |-> path, dropped |-> FALSE, pc |-> "recv", pending |-> 0]

\* the assignment as it would be if the watcher it replaces were kept alive
DropKeepsOld(ws) == ws

\* the Option<RecommendedWatcher> an assignment to state.watcher replaces is
\* dropped, and the sender of its channel with it
DropAll(ws) == [i \in DOMAIN ws |-> [ws[i] EXCEPT !.dropped = TRUE]]

\* state.watcher = start_watcher(app_handle.clone(), &path): the new watcher
\* and its thread are started, then the old watcher is dropped
SetWatcher(t) ==
    /\ tasks[t].pc = "set_watcher"
    /\ lock = t
    /\ \E built \in BOOLEAN :
         LET w == start_watcher(tasks[t].path, built) IN
           /\ state_watcher' = w
           /\ wthreads' = IF w = 0 THEN DropAll(wthreads)
                          ELSE Append(DropAll(wthreads), NewThread(w))
    /\ tasks' = [tasks EXCEPT ![t].pc = "settings"]
    /\ sresult' = NoSResult
    /\ UNCHANGED <<lock, state_repo, settings, disk, sops>>
    /\ UNCHANGED notSession

\* the end of the command as it would be if last_opened_repository were left
\* as it is
SaveSettingsKeepsLastOpened(t, cmd, recent) ==
    /\ tasks[t].pc = "settings"
    /\ lock = t
    /\ recent_repositories' = recent
    /\ UNCHANGED last_opened_repository
    /\ \E saved \in BOOLEAN :
         IF saved THEN SReturns(cmd, "ok", tasks[t].path)
         ELSE SFails(cmd, tasks[t].path, "Io", "settings")
    /\ lock' = Free
    /\ tasks' = [tasks EXCEPT ![t] = IdleTask]
    /\ UNCHANGED <<state_repo, state_watcher, disk, sops>>
    /\ UNCHANGED <<notSession, wthreads>>

\* the recent list and last_opened are updated and saved; the command returns
\* and the guard is dropped.  saved = save_settings_to_disk succeeded.
SaveSettings(t, cmd, recent) ==
    /\ tasks[t].pc = "settings"
    /\ lock = t
    /\ recent_repositories' = recent
    /\ last_opened_repository' = tasks[t].path
    /\ \E saved \in BOOLEAN :
         IF saved THEN SReturns(cmd, "ok", tasks[t].path)
         ELSE SFails(cmd, tasks[t].path, "Io", "settings")
    /\ lock' = Free
    /\ tasks' = [tasks EXCEPT ![t] = IdleTask]
    /\ UNCHANGED <<state_repo, state_watcher, disk, sops>>
    /\ UNCHANGED <<notSession, wthreads>>

\* open_repository as it would be if the handle were installed in a critical
\* section of its own, the watcher being installed in a later one
open_set_repo_own_section(t) ==
    /\ tasks[t].cmd = "open"
    /\ tasks[t].pc = "set_repo"
    /\ lock = t
    /\ state_repo' = tasks[t].path
    /\ tasks' = [tasks EXCEPT ![t].pc = "set_watcher"]
    /\ sresult' = NoSResult
    /\ lock' = Free
    /\ UNCHANGED <<state_watcher, settings, disk, sops>>
    /\ UNCHANGED <<notSession, wthreads>>

open_set_repo(t) ==
    /\ tasks[t].cmd = "open"
    /\ SetRepo(t)

open_set_watcher(t) ==
    /\ tasks[t].cmd = "open"
    /\ SetWatcher(t)

open_settings(t) ==
    /\ tasks[t].cmd = "open"
    /\ SaveSettings(t, "open", OpenRecent(tasks[t].path))

\* clone_repository as it would be if it kept the guard it reads the
\* credentials under
clone_enter_keeps_guard(t) ==
    /\ tasks[t] = IdleTask
    /\ lock = Free
    /\ IssueS
    /\ \E path \in TargetPaths :
         tasks' = [tasks EXCEPT ![t] = [cmd |-> "clone", pc |-> "transfer",
                                        path |-> path, before |-> NoHeld]]
    /\ lock' = t
    /\ sresult' = NoSResult
    /\ UNCHANGED <<state_repo, state_watcher, settings, disk>>
    /\ UNCHANGED <<notSession, wthreads>>

\* clone_repository: read the credentials under the lock, release it
clone_enter(t) ==
    /\ tasks[t] = IdleTask
    /\ lock = Free
    /\ IssueS
    /\ \E path \in TargetPaths :
         tasks' = [tasks EXCEPT ![t] = [cmd |-> "clone", pc |-> "transfer",
                                        path |-> path, before |-> NoHeld]]
    /\ sresult' = NoSResult
    /\ UNCHANGED <<lock, state_repo, state_watcher, settings, disk>>
    /\ UNCHANGED <<notSession, wthreads>>

\* git clone -- url path, in a blocking thread, the lock not held
clone_transfer(t) ==
    /\ tasks[t].cmd = "clone"
    /\ tasks[t].pc = "transfer"
    /\ \E netOk \in BOOLEAN :
         IF disk[tasks[t].path] = "missing" /\ netOk
         THEN /\ disk' = [disk EXCEPT ![tasks[t].path] = "repo"]
              /\ tasks' = [tasks EXCEPT ![t].pc = "install"]
              /\ sresult' = NoSResult
         ELSE /\ SReturns("clone", "error", tasks[t].path)
              /\ tasks' = [tasks EXCEPT ![t] = IdleTask]
              /\ UNCHANGED disk
    /\ UNCHANGED <<lock, state_repo, state_watcher, settings, sops>>
    /\ UNCHANGED <<notSession, wthreads>>

\* re-acquire the lock and re-open the cloned repository
clone_install(t) ==
    /\ tasks[t].cmd = "clone"
    /\ tasks[t].pc = "install"
    /\ lock = Free
    /\ IF disk[tasks[t].path] = "repo"
       THEN /\ lock' = t
            /\ tasks' = [tasks EXCEPT ![t].pc = "set_repo",
                                      ![t].before = Held]
            /\ sresult' = NoSResult
       ELSE /\ SReturns("clone", "error", tasks[t].path)
            /\ tasks' = [tasks EXCEPT ![t] = IdleTask]
            /\ UNCHANGED lock
    /\ UNCHANGED <<state_repo, state_watcher, settings, disk, sops>>
    /\ UNCHANGED <<notSession, wthreads>>

clone_set_repo(t) ==
    /\ tasks[t].cmd = "clone"
    /\ SetRepo(t)

clone_set_watcher(t) ==
    /\ tasks[t].cmd = "clone"
    /\ SetWatcher(t)

clone_settings(t) ==
    /\ tasks[t].cmd = "clone"
    /\ SaveSettings(t, "clone", CloneRecent(tasks[t].path))

\* pull_changes: read the workdir path under the lock, release it
pull_enter(t) ==
    /\ tasks[t] = IdleTask
    /\ lock = Free
    /\ IssueS
    /\ IF state_repo = 0
       THEN /\ SFails("pull", 0, "Git", "No repository open")
            /\ UNCHANGED tasks
       ELSE /\ tasks' = [tasks EXCEPT ![t] = [cmd |-> "pull", pc |-> "spawned",
                                              path |-> state_repo,
                                              before |-> NoHeld]]
            /\ sresult' = NoSResult
    /\ UNCHANGED <<lock, state_repo, state_watcher, settings, disk>>
    /\ UNCHANGED <<notSession, wthreads>>

\* in the blocking thread: git_operations::open_repository(path) gives the task
\* a handle of its own, and git pull starts rewriting the repository
pull_open(t) ==
    /\ tasks[t].cmd = "pull"
    /\ tasks[t].pc = "spawned"
    /\ tasks' = [tasks EXCEPT ![t].pc = "pulling"]
    /\ sresult' = NoSResult
    /\ UNCHANGED <<lock, state_repo, state_watcher, settings, disk, sops>>
    /\ UNCHANGED <<notSession, wthreads>>

\* git pull origin <branch> has ended; the handle is dropped
pull_return(t) ==
    /\ tasks[t].cmd = "pull"
    /\ tasks[t].pc = "pulling"
    /\ \E pulled \in BOOLEAN :
         SReturns("pull", IF pulled THEN "ok" ELSE "error", tasks[t].path)
    /\ tasks' = [tasks EXCEPT ![t] = IdleTask]
    /\ UNCHANGED <<lock, state_repo, state_watcher, settings, disk, sops>>
    /\ UNCHANGED <<notSession, wthreads>>

\* push_changes and fetch_changes, first block: the workdir path and the
\* credentials are read under the lock, which is released at the end of the
\* block
NetEnter(t, cmd) ==
    /\ tasks[t] = IdleTask
    /\ lock = Free
    /\ IssueS
    /\ IF state_repo = 0
       THEN /\ SFails(cmd, 0, "Git", "No repository open")
            /\ UNCHANGED tasks
       ELSE /\ tasks' = [tasks EXCEPT ![t] = [cmd |-> cmd, pc |-> "spawned",
                                              path |-> state_repo,
                                              before |-> NoHeld]]
            /\ sresult' = NoSResult
    /\ UNCHANGED <<lock, state_repo, state_watcher, settings, disk>>
    /\ UNCHANGED <<notSession, wthreads>>

\* in the blocking thread: git_operations::open_repository(path), then the
\* transfer starts
NetOpen(t, cmd, running) ==
    /\ tasks[t].cmd = cmd
    /\ tasks[t].pc = "spawned"
    /\ tasks' = [tasks EXCEPT ![t].pc = running]
    /\ sresult' = NoSResult
    /\ UNCHANGED <<lock, state_repo, state_watcher, settings, disk, sops>>
    /\ UNCHANGED <<notSession, wthreads>>

\* the transfer has ended and the command returns its outcome
NetReturn(t, cmd, running) ==
    /\ tasks[t].cmd = cmd
    /\ tasks[t].pc = running
    /\ \E done \in BOOLEAN :
         SReturns(cmd, IF done THEN "ok" ELSE "error", tasks[t].path)
    /\ tasks' = [tasks EXCEPT ![t] = IdleTask]
    /\ UNCHANGED <<lock, state_repo, state_watcher, settings, disk, sops>>
    /\ UNCHANGED <<notSession, wthreads>>

push_enter(t) == NetEnter(t, "push")

push_open(t) == NetOpen(t, "push", "pushing")

push_return(t) == NetReturn(t, "push", "pushing")

fetch_enter(t) == NetEnter(t, "fetch")

fetch_open(t) == NetOpen(t, "fetch", "fetching")

fetch_return(t) == NetReturn(t, "fetch", "fetching")

\* amend_commit: take the lock; with a repository open, amend under the lock
amend_enter(t) ==
    /\ tasks[t] = IdleTask
    /\ lock = Free
    /\ IssueS
    /\ IF state_repo = 0
       THEN /\ SFails("amend", 0, "Git", "No repository open")
            /\ UNCHANGED <<lock, tasks>>
       ELSE /\ lock' = t
            /\ tasks' = [tasks EXCEPT ![t] = [cmd |-> "amend", pc |-> "amending",
                                              path |-> state_repo,
                                              before |-> NoHeld]]
            /\ sresult' = NoSResult
    /\ UNCHANGED <<state_repo, state_watcher, settings, disk>>
    /\ UNCHANGED <<notSession, wthreads>>

\* amend_last_commit has returned; the guard is dropped
amend_return(t) ==
    /\ tasks[t].cmd = "amend"
    /\ tasks[t].pc = "amending"
    /\ lock = t
    /\ \E amended \in BOOLEAN :
         SReturns("amend", IF amended THEN "ok" ELSE "error", tasks[t].path)
    /\ lock' = Free
    /\ tasks' = [tasks EXCEPT ![t] = IdleTask]
    /\ UNCHANGED <<state_repo, state_watcher, settings, disk, sops>>
    /\ UNCHANGED <<notSession, wthreads>>

\* run(): the settings are loaded and the last opened repository is opened:
\* an installation in use, with ten recent paths, one of them deleted since
Established ==
    /\ recent_repositories = [i \in 1..RecentCap |-> i]
    /\ last_opened_repository = 1
    /\ state_repo = 1
    /\ state_watcher = 1
    /\ wthreads = <<NewThread(1)>>

\* run() on a first start: default settings, nothing to open
FirstStart ==
    /\ recent_repositories = <<>>
    /\ last_opened_repository = 0
    /\ state_repo = 0
    /\ state_watcher = 0
    /\ wthreads = <<>>

SessionAtRest ==
    /\ lock = Free
    /\ tasks = [t \in Tasks |-> IdleTask]
    /\ sresult = NoSResult
    /\ sops = 0
    /\ disk = [p \in AllPaths |-> IF p \in {3, RecentCap + 1} THEN "missing" ELSE "repo"]

SessionInit == SessionAtRest /\ (Established \/ FirstStart)

SessionNext ==
    \E t \in Tasks :
        \/ open_enter(t)
        \/ open_set_repo(t)
        \/ open_set_watcher(t)
        \/ open_settings(t)
        \/ clone_enter(t)
        \/ clone_transfer(t)
        \/ clone_install(t)
        \/ clone_set_repo(t)
        \/ clone_set_watcher(t)
        \/ clone_settings(t)
        \/ pull_enter(t)
        \/ pull_open(t)
        \/ pull_return(t)
        \/ push_enter(t)
        \/ push_open(t)
        \/ push_return(t)
        \/ fetch_enter(t)
        \/ fetch_open(t)
        \/ fetch_return(t)
        \/ amend_enter(t)
        \/ amend_return(t)

\* outside the program: between two commands, the directory of the repository
\* the session has open is deleted, which a later open of the path finds out
\* (Path::exists)
DirectoryRemoved ==
    /\ lock = Free
    /\ \A t \in Tasks : tasks[t] = IdleTask
    /\ state_repo # 0
    /\ disk[state_repo] = "repo"
    /\ disk' = [disk EXCEPT ![state_repo] = "missing"]
    /\ sresult' = NoSResult
    /\ UNCHANGED <<lock, tasks, state_repo, state_watcher, settings, sops>>
    /\ UNCHANGED <<notSession, wthreads>>

\* the commands of the session, and the directories they work on going away
SessionDiskNext == SessionNext \/ DirectoryRemoved

\* a repository nothing is going on in: HEAD on main, no operation under way
RepoQuiet ==
    /\ head = "main"
    /\ conflicts = NoConflicts
    /\ repoState = "none"
    /\ identity \in BOOLEAN
    /\ safety = <<>>
    /\ now = 1
    /\ cur = Idle
    /\ result = NoResult
    /\ written = {}
    /\ ops = 0

\* a repository with its first commit checked out, or a freshly initialised one
RepoInit ==
    /\ \/ /\ objs = <<InitialCommit>>
          /\ branches = [b \in BranchNames |-> 1]
          /\ index = InitialCommit.tree
          /\ worktree = InitialCommit.tree
       \/ /\ objs = <<>>
          /\ branches = [b \in BranchNames |-> 0]
          /\ index = NoTree
          /\ worktree = NoTree
    /\ RepoQuiet

\* no event has been seen yet: the thread blocks in rx.recv()
WatcherInit ==
    /\ chan = <<>>
    /\ wpc = "recv"
    /\ emitted = 0
    /\ alive = TRUE
    /\ arrived = 0
    /\ cb = 0
    /\ nb = 0
    /\ emitsOf = <<>>
    /\ sizeOf = <<>>

\* a clone of origin, nothing pushed to origin since
PullInit ==
    /\ origin = HeadCommit
    /\ remoteRef = HeadCommit
    /\ pullMode \in PullModes
    /\ merged = {}
    /\ pushed = 0

RemoteAtRest == PullInit /\ pullMode = "refuse"

\* HEAD on its branch, the branch tracking origin, nothing ignored, no query
\* nothing is staged and unstage_files has not been called
UnstageAtRest ==
    /\ uhead = FirstHead
    /\ uindex = uhead.tree
    /\ uresult = NoUnstage

InfoAtRest ==
    /\ detached = FALSE
    /\ tracking = TRUE
    /\ ignored = {}
    /\ qresult = NoQuery
    /\ changes = 0

\* the repository the session of an installation in use has open
Init ==
    RepoInit /\ WatcherInit /\ SessionAtRest /\ Established /\ RemoteAtRest
      /\ InfoAtRest /\ UnstageAtRest

\* the notification thread and the session commands do not look into the
\* repository: it rests at its first commit
RepoAtRest == RepoInit /\ objs # <<>> /\ identity

InitWatcher ==
    RepoAtRest /\ WatcherInit /\ SessionAtRest /\ Established /\ RemoteAtRest
      /\ InfoAtRest /\ UnstageAtRest

InitSession ==
    RepoAtRest /\ WatcherInit /\ SessionInit /\ RemoteAtRest /\ InfoAtRest /\ UnstageAtRest

\* a clone of origin with its first commit checked out
InitPull ==
    RepoAtRest /\ WatcherInit /\ SessionAtRest /\ Established /\ PullInit
      /\ InfoAtRest /\ UnstageAtRest

\* a repository as the queries may find it: with or without commits, with or
\* without an upstream configured, the upstream ref fetched or not
InitInfo ==
    /\ RepoInit /\ identity
    /\ WatcherInit /\ SessionAtRest /\ Established
    /\ origin = HeadCommit
    /\ remoteRef \in {0, HeadCommit}
    /\ pullMode = "refuse"
    /\ merged = {}
    /\ pushed = 0
    /\ detached = FALSE
    /\ tracking \in BOOLEAN
    /\ ignored \in SUBSET Paths
    /\ qresult = NoQuery
    /\ changes = 0
    /\ UnstageAtRest

Next ==
    \/ stage_files
    \/ create_commit
    \/ amend_begin
    \/ amend_finish
    \/ cherry_pick_begin
    \/ cherry_pick_finish
    \/ revert_commit_begin
    \/ revert_commit_finish
    \/ discard_all_begin
    \/ discard_all_finish
    \/ resolve_conflict
    \/ ExternalEdit
    \/ Tick

Spec == Init /\ [][Next]_vars

(***************************************************************************)
(* Change Notification Pipeline: the thread start_watcher spawns.          *)
(*   while let Ok(res) = rx.recv() { match res {                           *)
(*       Ok(_) => { sleep(100ms); emit("git-state-changed");               *)
(*                  while let Ok(_) = rx.try_recv() {} }                   *)
(*       Err(e) => eprintln!(..) } }                                       *)
(* A burst is the event whose receipt ends a blocking rx.recv() together   *)
(* with the events that arrive during the sleep that follows it.           *)
(***************************************************************************)
\* filesystem events the watcher sends in one behaviour
MaxEvents == 5

\* the watcher sends an event (kind "ok") or an error (kind "err")
FsEvent ==
    /\ alive
    /\ arrived < MaxEvents
    /\ arrived' = arrived + 1
    /\ \E kind \in {"ok", "err"} :
         /\ chan' = Append(chan, [kind |-> kind,
                                  burst |-> IF wpc = "sleep" THEN cb ELSE 0])
         /\ sizeOf' = IF wpc = "sleep" /\ kind = "ok"
                      THEN [sizeOf EXCEPT ![cb] = @ + 1]
                      ELSE sizeOf
    /\ UNCHANGED <<wpc, emitted, alive, cb, nb, emitsOf>>
    /\ UNCHANGED notWatcher

\* rx.recv() returns a message: an event starts the sleep, an error is printed
Recv ==
    /\ wpc = "recv"
    /\ chan # <<>>
    /\ chan' = Tail(chan)
    /\ IF Head(chan).kind = "err"
       THEN UNCHANGED <<wpc, cb, nb, emitsOf, sizeOf>>
       ELSE /\ wpc' = "sleep"
            /\ IF Head(chan).burst = 0
               THEN /\ nb' = nb + 1
                    /\ cb' = nb + 1
                    /\ emitsOf' = Append(emitsOf, 0)
                    /\ sizeOf' = Append(sizeOf, 1)
               ELSE /\ cb' = Head(chan).burst
                    /\ UNCHANGED <<nb, emitsOf, sizeOf>>
    /\ UNCHANGED <<emitted, alive, arrived>>
    /\ UNCHANGED notWatcher

\* rx.recv() fails: the channel is empty and its sender is gone; the loop ends
RecvDisconnected ==
    /\ wpc = "recv"
    /\ chan = <<>>
    /\ ~alive
    /\ wpc' = "exit"
    /\ UNCHANGED <<chan, emitted, alive, arrived, cb, nb, emitsOf, sizeOf>>
    /\ UNCHANGED notWatcher

\* the thread as it would be without the drain loop after the emit
WakeEmit_NoDrain ==
    /\ wpc = "sleep"
    /\ emitted' = emitted + 1
    /\ emitsOf' = [emitsOf EXCEPT ![cb] = @ + 1]
    /\ wpc' = "recv"
    /\ cb' = 0
    /\ UNCHANGED <<chan, alive, arrived, nb, sizeOf>>
    /\ UNCHANGED notWatcher

\* the sleep is over: emit "git-state-changed", then start draining
WakeEmit ==
    /\ wpc = "sleep"
    /\ emitted' = emitted + 1
    /\ emitsOf' = [emitsOf EXCEPT ![cb] = @ + 1]
    /\ wpc' = "drain"
    /\ UNCHANGED <<chan, alive, arrived, cb, nb, sizeOf>>
    /\ UNCHANGED notWatcher

\* rx.try_recv() returns a message: it is dropped
DrainOne ==
    /\ wpc = "drain"
    /\ chan # <<>>
    /\ chan' = Tail(chan)
    /\ UNCHANGED <<wpc, emitted, alive, arrived, cb, nb, emitsOf, sizeOf>>
    /\ UNCHANGED notWatcher

\* rx.try_recv() finds nothing: back to the blocking rx.recv()
DrainEnd ==
    /\ wpc = "drain"
    /\ chan = <<>>
    /\ wpc' = "recv"
    /\ cb' = 0
    /\ UNCHANGED <<chan, emitted, alive, arrived, nb, emitsOf, sizeOf>>
    /\ UNCHANGED notWatcher

\* the session drops the watcher (state.watcher is replaced)
DropWatcher ==
    /\ alive
    /\ alive' = FALSE
    /\ UNCHANGED <<chan, wpc, emitted, arrived, cb, nb, emitsOf, sizeOf>>
    /\ UNCHANGED notWatcher

WatcherNext ==
    \/ FsEvent
    \/ Recv
    \/ RecvDisconnected
    \/ WakeEmit
    \/ DrainOne
    \/ DrainEnd
    \/ DropWatcher

SpecWatcher == InitWatcher /\ [][WatcherNext]_vars

\* a step of the notification thread
ThreadRuns == Recv \/ RecvDisconnected \/ WakeEmit \/ DrainOne \/ DrainEnd

\* the operating system schedules the thread whenever it can run: rx.recv()
\* returns when the channel holds a message, the sleep ends, try_recv returns
SpecWatcherFair == SpecWatcher /\ WF_vars(ThreadRuns)

SpecSession == InitSession /\ [][SessionNext]_vars

SpecSessionDisk == InitSession /\ [][SessionDiskNext]_vars

(***************************************************************************)
(* The notification threads of the watchers a session goes through: every  *)
(* start_watcher call that builds a watcher spawns one.                     *)
(***************************************************************************)
\* events a channel holds at most
MaxPending == 1

\* open and clone commands issued in one behaviour of SpecLifetime
MaxReplacements == 1

\* threads a behaviour can spawn: the one of start-up and one per command
Threads == 1..(MaxReplacements + 1)

\* the watcher of thread i sees a change under .git and sends an event
watch_event(i) ==
    /\ i \in DOMAIN wthreads
    /\ ~wthreads[i].dropped
    /\ wthreads[i].pending < MaxPending
    /\ wthreads' = [wthreads EXCEPT ![i].pending = @ + 1]
    /\ UNCHANGED <<lock, state_repo, state_watcher, settings, disk, tasks, sresult,
                   sops>>
    /\ UNCHANGED notSession

\* rx.recv() returns an event: the thread goes to sleep for the debounce
thread_recv(i) ==
    /\ i \in DOMAIN wthreads
    /\ wthreads[i].pc = "recv"
    /\ wthreads[i].pending > 0
    /\ wthreads' = [wthreads EXCEPT ![i].pending = @ - 1, ![i].pc = "sleep"]
    /\ UNCHANGED <<lock, state_repo, state_watcher, settings, disk, tasks, sresult,
                   sops>>
    /\ UNCHANGED notSession

\* the sleep ends, "git-state-changed" is emitted and the channel is drained
thread_emit(i) ==
    /\ i \in DOMAIN wthreads
    /\ wthreads[i].pc = "sleep"
    /\ wthreads' = [wthreads EXCEPT ![i].pending = 0, ![i].pc = "recv"]
    /\ UNCHANGED <<lock, state_repo, state_watcher, settings, disk, tasks, sresult,
                   sops>>
    /\ UNCHANGED notSession

\* rx.recv() returns Err: the channel is empty and its sender is gone; the
\* loop ends and the thread with it
thread_exit(i) ==
    /\ i \in DOMAIN wthreads
    /\ wthreads[i].pc = "recv"
    /\ wthreads[i].pending = 0
    /\ wthreads[i].dropped
    /\ wthreads' = [wthreads EXCEPT ![i].pc = "exit"]
    /\ UNCHANGED <<lock, state_repo, state_watcher, settings, disk, tasks, sresult,
                   sops>>
    /\ UNCHANGED notSession

ThreadStep(i) == thread_recv(i) \/ thread_emit(i) \/ thread_exit(i)

\* the commands that replace the handle are issued one after the other
Replacers == {"t1"}
LifetimeNext ==
    \/ \E t \in Replacers :
        \/ sops < MaxReplacements /\ open_enter(t)
        \/ open_set_repo(t)
        \/ open_set_watcher(t)
        \/ open_settings(t)
        \/ sops < MaxReplacements /\ clone_enter(t)
        \/ clone_transfer(t)
        \/ clone_install(t)
        \/ clone_set_repo(t)
        \/ clone_set_watcher(t)
        \/ clone_settings(t)
    \/ \E i \in Threads :
        \/ watch_event(i)
        \/ thread_recv(i)
        \/ thread_emit(i)
        \/ thread_exit(i)

\* the operating system schedules every thread that can run
SpecLifetime ==
    /\ InitSession
    /\ [][LifetimeNext]_vars
    /\ \A i \in Threads : WF_vars(ThreadStep(i))

(***************************************************************************)
(* Branches: git_operations::create_branch and checkout_branch.            *)
(***************************************************************************)
\* the character U+0060, which a string of this language cannot hold
Backquote == "backquote"

\* the names the branch commands are called with
NameArgs == {"", "-d", "a b", "a\tb", "a;b", "a&b", "a|b", "a{backquote}b", "a$b", "a\\b",
             "a>b", "dev", "main"}

\* str::chars(): the characters of a name, one string per character
chars(arg) ==
    CASE arg = "" -> <<>>
      [] arg = "-d" -> <<"-", "d">>
      [] arg = "a b" -> <<"a", " ", "b">>
      [] arg = "a\tb" -> <<"a", "\t", "b">>
      [] arg = "a;b" -> <<"a", ";", "b">>
      [] arg = "a&b" -> <<"a", "&", "b">>
      [] arg = "a|b" -> <<"a", "|", "b">>
      [] arg = "a{backquote}b" -> <<"a", Backquote, "b">>
      [] arg = "a$b" -> <<"a", "$", "b">>
      [] arg = "a\\b" -> <<"a", "\\", "b">>
      [] arg = "a>b" -> <<"a", ">", "b">>
      [] arg = "dev" -> <<"d", "e", "v">>
      [] arg = "main" -> <<"m", "a", "i", "n">>

\* str::contains(char)
contains(arg, ch) == \E i \in DOMAIN chars(arg) : chars(arg)[i] = ch

\* str::starts_with(char)
starts_with(arg, ch) == chars(arg) # <<>> /\ chars(arg)[1] = ch

is_safe_git_arg(arg) ==
    /\ chars(arg) # <<>>
    /\ ~starts_with(arg, "-")
    /\ ~contains(arg, " ")
    /\ ~contains(arg, ";")
    /\ ~contains(arg, "&")
    /\ ~contains(arg, "|")
    /\ ~contains(arg, Backquote)
    /\ ~contains(arg, "$")
    /\ ~contains(arg, "\\")

\* the characters the backend refuses in the name of a reference
RefNameForbidden == {" ", "\t", "\n", "~", "^", ":", "?", "*", "[", "\\"}

\* the backend takes refs/heads/<name> for the name of a reference
is_valid_ref_name(arg) ==
    /\ chars(arg) # <<>>
    /\ ~starts_with(arg, "-")
    /\ \A ch \in RefNameForbidden : ~contains(arg, ch)

\* refs/heads/<name> exists
BranchExists(refs, name) == name \in DOMAIN refs /\ refs[name] # 0

ReturnsBranch(cmd, status, name, message) ==
    result' = [NoResult EXCEPT !.cmd = cmd, !.status = status, !.name = name,
                               !.message = message]

\* repo.checkout_tree(&obj, None): the safe checkout of target with HEAD's
\* tree for baseline.  A path whose target differs from the baseline is
\* written (or removed) when the working tree holds the baseline or the
\* target; when it holds something else, or lacks a file that both trees
\* have, or holds a file the baseline lacks, the checkout fails and nothing
\* is written.  A path whose target is the baseline is left alone.
checkout_tree(target, idx, wt) ==
    LET base == HeadTree
        changed(p) == target[p] # base[p]
        modified(p) == wt[p] # base[p] /\ wt[p] # target[p]
        conflict(p) ==
            /\ changed(p)
            /\ IF wt[p] = Absent THEN base[p] # Absent /\ target[p] # Absent
               ELSE IF base[p] = Absent THEN TRUE
               ELSE modified(p)
    IN IF \E p \in Paths : conflict(p)
       THEN [ok |-> FALSE, index |-> idx, worktree |-> wt]
       ELSE [ok |-> TRUE,
             index |-> [p \in Paths |-> IF changed(p) THEN target[p] ELSE idx[p]],
             worktree |-> [p \in Paths |-> IF changed(p) THEN target[p] ELSE wt[p]]]

\* repo.set_head as it would be if it left HEAD where it is
set_head_unchanged(name) == head

\* repo.set_head("refs/heads/<name>"): the branch the symbolic HEAD names
set_head(name) == name

\* git_operations::checkout_branch(repo, name) on a repository whose branches
\* are refs
CheckoutBranch(cmd, name, refs) ==
    /\ branches' = refs
    /\ IF ~is_safe_git_arg(name)
       THEN /\ ReturnsBranch(cmd, "error", name, "Invalid branch name")
            /\ UNCHANGED <<head, index, worktree>>
       ELSE IF ~BranchExists(refs, name)
       THEN /\ ReturnsBranch(cmd, "error", name, "Failed to find branch")
            /\ UNCHANGED <<head, index, worktree>>
       ELSE LET co == checkout_tree(TreeOf(refs[name]), index, worktree) IN
              IF ~co.ok
              THEN /\ ReturnsBranch(cmd, "error", name, "Failed to checkout tree")
                   /\ UNCHANGED <<head, index, worktree>>
              ELSE /\ index' = co.index
                   /\ worktree' = co.worktree
                   /\ head' = set_head(name)
                   /\ ReturnsBranch(cmd, "ok", name, "")

checkout_branch ==
    /\ cur = Idle
    /\ Issue
    /\ \E name \in NameArgs : CheckoutBranch("checkout_branch", name, branches)
    /\ UNCHANGED <<objs, conflicts, repoState, identity, safety, now, cur, written>>
    /\ UNCHANGED notRepo

\* git_operations::create_branch(repo, name): the branch is created on HEAD's
\* commit (force = false) and checked out
create_branch ==
    /\ cur = Idle
    /\ Issue
    /\ \E name \in NameArgs :
         IF ~is_safe_git_arg(name)
         THEN /\ ReturnsBranch("create_branch", "error", name, "Invalid branch name")
              /\ UNCHANGED <<branches, head, index, worktree>>
         ELSE IF HeadCommit = 0
         THEN /\ ReturnsBranch("create_branch", "error", name, "Failed to get HEAD")
              /\ UNCHANGED <<branches, head, index, worktree>>
         ELSE IF ~is_valid_ref_name(name) \/ BranchExists(branches, name)
         THEN /\ ReturnsBranch("create_branch", "error", name,
                               "Failed to create branch")
              /\ UNCHANGED <<branches, head, index, worktree>>
         ELSE CheckoutBranch("create_branch", name, Upd(branches, name, HeadCommit))
    /\ UNCHANGED <<objs, conflicts, repoState, identity, safety, now, cur, written>>
    /\ UNCHANGED notRepo

\* a commit made on main after dev was branched off the first commit
SecondCommit == [parent |-> 1, msg |-> "m2", tree |-> [p \in Paths |-> "v2"],
                 author |-> "user", time |-> 0]

\* a repository with the branch main alone, or with main and dev one commit
\* apart, or with dev and HEAD on a branch main that has no commit yet (as
\* git checkout --orphan leaves it: the index and the files stay)
InitBranch ==
    /\ \/ RepoInit
       \/ /\ objs = <<InitialCommit, SecondCommit>>
          /\ branches = [b \in {"main", "dev"} |-> IF b = "main" THEN 2 ELSE 1]
          /\ index = SecondCommit.tree
          /\ worktree = SecondCommit.tree
          /\ RepoQuiet
       \/ /\ objs = <<InitialCommit>>
          /\ branches = [b \in {"main", "dev"} |-> IF b = "main" THEN 0 ELSE 1]
          /\ index = InitialCommit.tree
          /\ worktree = InitialCommit.tree
          /\ RepoQuiet
    /\ WatcherInit /\ SessionAtRest /\ Established /\ RemoteAtRest /\ InfoAtRest /\ UnstageAtRest

BranchNext ==
    \/ create_branch
    \/ checkout_branch
    \/ stage_files
    \/ create_commit
    \/ ExternalEdit

SpecBranch == InitBranch /\ [][BranchNext]_vars

(***************************************************************************)
(* Unstage: git_operations::unstage_files, on an index of several paths.   *)
(* bad is the set of paths the backend fails on in this call.              *)
(***************************************************************************)
\* repo.reset_default(Some(commit), pathspecs): the index entry of every path
\* becomes the one of the commit's tree and the index is written; an error on
\* one path fails the call and nothing is written
reset_default(idx, tree, pathspecs, bad) ==
    IF pathspecs \cap bad # {}
    THEN [ok |-> FALSE, index |-> idx]
    ELSE [ok |-> TRUE,
          index |-> [p \in UnstagePaths |->
                       IF p \in pathspecs THEN tree[p] ELSE idx[p]]]

\* for path in &paths { let _ = repo.reset_default(.., once(path)) }
RECURSIVE ResetEach(_, _, _, _)
ResetEach(idx, tree, todo, bad) ==
    IF todo = {} THEN idx
    ELSE LET p == CHOOSE x \in todo : TRUE
         IN ResetEach(reset_default(idx, tree, {p}, bad).index, tree,
                      todo \ {p}, bad)

\* unstage_files as it would be without the path-by-path retry
unstage_bulk_only(paths, bad, writeOk) ==
    IF uhead.commit
    THEN [ok |-> TRUE,
          index |-> reset_default(uindex, uhead.tree, paths, bad).index]
    ELSE IF ~writeOk THEN [ok |-> FALSE, index |-> uindex]
    ELSE [ok |-> TRUE,
          index |-> [p \in UnstagePaths |->
                       IF p \in paths \ bad THEN Absent ELSE uindex[p]]]

\* what unstage_files(repo, paths) returns and leaves in the index; writeOk
\* is whether index.write() succeeds where HEAD has no commit
unstage(paths, bad, writeOk) ==
    IF uhead.commit
    THEN LET bulk == reset_default(uindex, uhead.tree, paths, bad)
         IN [ok |-> TRUE,
             index |-> IF bulk.ok THEN bulk.index
                       ELSE ResetEach(uindex, uhead.tree, paths, bad)]
    ELSE IF ~writeOk THEN [ok |-> FALSE, index |-> uindex]
    ELSE [ok |-> TRUE,
          index |-> [p \in UnstagePaths |->
                       IF p \in paths \ bad THEN Absent ELSE uindex[p]]]

unstage_files ==
    /\ \E paths \in SUBSET UnstagePaths, bad \in SUBSET UnstagePaths,
          writeOk \in BOOLEAN :
         LET r == unstage(paths, bad, writeOk) IN
           /\ uindex' = r.index
           /\ uresult' = [cmd |-> "unstage",
                          status |-> IF r.ok THEN "ok" ELSE "error",
                          paths |-> paths, bad |-> bad]
    /\ UNCHANGED uhead
    /\ UNCHANGED <<repoVars, watchVars, sessVars, pullVars, infoVars>>

\* the user stages a file, or its removal
UnstageAdd ==
    /\ \E p \in UnstagePaths, c \in Blobs \cup {Absent} :
         /\ uindex[p] # c
         /\ uindex' = [uindex EXCEPT ![p] = c]
    /\ uresult' = NoUnstage
    /\ UNCHANGED uhead
    /\ UNCHANGED <<repoVars, watchVars, sessVars, pullVars, infoVars>>

\* a repository with its first commit or with none, nothing staged
InitUnstage ==
    /\ RepoAtRest /\ WatcherInit /\ SessionAtRest /\ Established /\ RemoteAtRest
    /\ InfoAtRest
    /\ uhead \in {UnbornHead, FirstHead}
    /\ uindex = uhead.tree
    /\ uresult = NoUnstage

UnstageNext ==
    \/ unstage_files
    \/ UnstageAdd

SpecUnstage == InitUnstage /\ [][UnstageNext]_vars

(***************************************************************************)
(* Derived State Engine: get_repository_info, get_status and               *)
(* get_commit_history, on a repository that is changed from outside.       *)
(***************************************************************************)
\* changes made from outside in one behaviour
MaxChanges == 4

\* a symbolic link; every other content is a regular file
Link == "ln"
Contents == Blobs \cup {Link}
Kind(c) == IF c = Link THEN "link" ELSE "blob"

\* revwalk limits the history is asked with
Limits == {1, 3}

Change == changes < MaxChanges /\ changes' = changes + 1

\* ---- the backend's status scan (git2 Repository::statuses) ----
\* HEAD against the index
IndexFlags(p) ==
    LET h == HeadTree[p]
        i == index[p]
    IN IF h = i THEN {}
       ELSE IF h = Absent THEN {"INDEX_NEW"}
       ELSE IF i = Absent THEN {"INDEX_DELETED"}
       ELSE IF Kind(h) # Kind(i) THEN {"INDEX_TYPECHANGE"}
       ELSE {"INDEX_MODIFIED"}

\* the index against the working tree; a file that is not in the index is
\* ignored when .gitignore matches it and new otherwise
WtFlags(p) ==
    LET i == index[p]
        w == worktree[p]
    IN IF i = w THEN {}
       ELSE IF i = Absent THEN (IF p \in ignored THEN {"IGNORED"} ELSE {"WT_NEW"})
       ELSE IF w = Absent THEN {"WT_DELETED"}
       ELSE IF Kind(i) # Kind(w) THEN {"WT_TYPECHANGE"}
       ELSE {"WT_MODIFIED"}

StatusFlags(p) ==
    IF conflicts[p] # NoConflict THEN {"CONFLICTED"}
    ELSE IndexFlags(p) \cup WtFlags(p)

\* statuses(None): libgit2's defaults, which are include_ignored,
\* include_untracked and recurse_untracked_dirs
DefaultStatusOptions == {"include_ignored", "include_untracked"}
\* StatusOptions::new() with include_untracked(true), recurse_untracked_dirs(true)
GetStatusOptions == {"include_untracked"}

\* the flags of p the scan reports under the options
Reported(p, opts) ==
    StatusFlags(p) \ ((IF "include_untracked" \in opts THEN {} ELSE {"WT_NEW"})
                      \cup (IF "include_ignored" \in opts THEN {} ELSE {"IGNORED"}))

\* repo.statuses(opts): one entry per path with a reported flag
statuses(opts) == {p \in Paths : Reported(p, opts) # {}}

\* ---- get_status ----
status_str(st) ==
    IF "INDEX_NEW" \in st \/ "INDEX_MODIFIED" \in st \/ "INDEX_DELETED" \in st
    THEN (IF "INDEX_NEW" \in st THEN "added"
          ELSE IF "INDEX_MODIFIED" \in st THEN "modified"
          ELSE "deleted")
    ELSE IF "WT_NEW" \in st THEN "untracked"
    ELSE IF "WT_MODIFIED" \in st THEN "modified"
    ELSE IF "WT_DELETED" \in st THEN "deleted"
    ELSE "unknown"

staged(st) ==
    "INDEX_NEW" \in st \/ "INDEX_MODIFIED" \in st \/ "INDEX_DELETED" \in st

FileStatus(p, st) == [path |-> p, status |-> status_str(st), staged |-> staged(st)]

get_status ==
    /\ qresult' = [NoQuery EXCEPT
                     !.cmd = "status", !.status = "ok",
                     !.entries = {FileStatus(p, Reported(p, GetStatusOptions)) :
                                    p \in statuses(GetStatusOptions)}]
    /\ UNCHANGED <<repoVars, watchVars, sessVars, pullVars, unstageVars>>
    /\ UNCHANGED <<detached, tracking, ignored, changes>>

\* ---- get_repository_info ----
\* the name HEAD's symbolic target has: a prefix and the branch name
HeadSymbolicTarget == <<"refs/heads/", head>>
\* str::strip_prefix(..).unwrap_or(name)
strip_prefix(name, prefix) == IF name[1] = prefix THEN <<name[2]>> ELSE name

\* repo.head() resolves: HEAD names a commit, or a branch that has one
HeadResolves == HeadCommit # 0

\* upstream as it would be if the remote-tracking ref were used whether or not
\* the branch has an upstream configured
upstream_oid_unchecked == IF HeadResolves /\ ~detached THEN remoteRef ELSE 0

\* branch_upstream_name(..).ok(), find_reference(..).ok(), target(): the commit
\* of the upstream ref, 0 when HEAD is no branch, no upstream is configured
\* or the ref is not there
upstream_oid ==
    IF HeadResolves /\ ~detached /\ tracking /\ remoteRef # 0 THEN remoteRef ELSE 0

\* repo.graph_ahead_behind(local, upstream)
graph_ahead_behind(local, upstream) ==
    [ahead |-> Cardinality(Ancestors(local) \ Ancestors(upstream)),
     behind |-> Cardinality(Ancestors(upstream) \ Ancestors(local))]

get_repository_info ==
    /\ LET ab == IF upstream_oid # 0
                 THEN graph_ahead_behind(HeadCommit, upstream_oid)
                 ELSE [ahead |-> 0, behind |-> 0]
       IN qresult' = [NoQuery EXCEPT
            !.cmd = "info", !.status = "ok",
            !.current_branch =
                IF HeadResolves
                THEN (IF detached THEN <<"detached HEAD">> ELSE <<head>>)
                ELSE strip_prefix(HeadSymbolicTarget, "refs/heads/"),
            !.ahead = ab.ahead,
            !.behind = ab.behind,
            !.is_dirty = (statuses(DefaultStatusOptions) # {})]
    /\ UNCHANGED <<repoVars, watchVars, sessVars, pullVars, unstageVars>>
    /\ UNCHANGED <<detached, tracking, ignored, changes>>

\* ---- get_commit_history ----
\* repo.graph_descendant_of(commit, ancestor); no commit descends from itself
graph_descendant_of(commit, ancestor) ==
    commit # ancestor /\ ancestor \in Ancestors(commit)

\* is_pushed as it would be if only the upstream tip itself counted
is_pushed_tip_only(u_oid, oid) == u_oid # 0 /\ u_oid = oid

is_pushed(u_oid, oid) ==
    IF u_oid # 0 THEN graph_descendant_of(u_oid, oid) \/ u_oid = oid ELSE FALSE

\* the first `limit` commits the revwalk from HEAD yields
RECURSIVE Walk(_, _)
Walk(c, limit) ==
    IF c = 0 \/ limit = 0 THEN {} ELSE {c} \cup Walk(objs[c].parent, limit - 1)

get_commit_history ==
    /\ \E limit \in Limits :
         IF ~HeadResolves
         THEN qresult' = [NoQuery EXCEPT !.cmd = "history", !.status = "error"]
         ELSE qresult' = [NoQuery EXCEPT
                !.cmd = "history", !.status = "ok",
                !.commits = {[sha |-> c, is_pushed |-> is_pushed(upstream_oid, c)] :
                               c \in Walk(HeadCommit, limit)}]
    /\ UNCHANGED <<repoVars, watchVars, sessVars, pullVars, unstageVars>>
    /\ UNCHANGED <<detached, tracking, ignored, changes>>

\* ---- the repository changes from outside (git on the command line) ----
\* a file is written, linked or deleted
InfoEdit ==
    /\ Change
    /\ \E p \in Paths, c \in Contents \cup {Absent} :
         /\ worktree[p] # c
         /\ worktree' = [worktree EXCEPT ![p] = c]
    /\ qresult' = NoQuery
    /\ UNCHANGED <<objs, branches, head, index, conflicts, repoState, identity,
                   safety, now, cur, result, written, ops>>
    /\ UNCHANGED <<watchVars, sessVars, pullVars, unstageVars>>
    /\ UNCHANGED <<detached, tracking, ignored>>

\* git add / git rm --cached
InfoAdd ==
    /\ Change
    /\ \E p \in Paths :
         /\ index[p] # worktree[p]
         /\ index' = [index EXCEPT ![p] = worktree[p]]
    /\ qresult' = NoQuery
    /\ UNCHANGED <<objs, branches, head, conflicts, worktree, repoState, identity,
                   safety, now, cur, result, written, ops>>
    /\ UNCHANGED <<watchVars, sessVars, pullVars, unstageVars>>
    /\ UNCHANGED <<detached, tracking, ignored>>

\* git commit on the branch HEAD names
InfoCommit ==
    /\ Change
    /\ ~detached
    /\ \E message \in CommitMsgs : CommitOnHead(HeadCommit, message, index)
    /\ qresult' = NoQuery
    /\ UNCHANGED <<head, index, conflicts, worktree, repoState, identity,
                   safety, now, cur, result, written, ops>>
    /\ UNCHANGED <<watchVars, sessVars, pullVars, unstageVars>>
    /\ UNCHANGED <<detached, tracking, ignored>>

\* git fetch brings a commit someone else pushed on top of the upstream tip
InfoFetch ==
    /\ Change
    /\ tracking
    /\ pushed < MaxPushes
    /\ pushed' = pushed + 1
    /\ objs' = Append(objs, [parent |-> remoteRef, msg |-> "m2",
                             tree |-> TreeOf(remoteRef),
                             author |-> "other", time |-> now])
    /\ remoteRef' = Len(objs) + 1
    /\ origin' = Len(objs) + 1
    /\ qresult' = NoQuery
    /\ UNCHANGED <<branches, head, index, conflicts, worktree, repoState, identity,
                   safety, now, cur, result, written, ops>>
    /\ UNCHANGED <<watchVars, sessVars, pullMode, merged, unstageVars>>
    /\ UNCHANGED <<detached, tracking, ignored>>

\* git checkout --detach
InfoDetach ==
    /\ Change
    /\ HeadResolves
    /\ ~detached
    /\ detached' = TRUE
    /\ qresult' = NoQuery
    /\ UNCHANGED <<repoVars, watchVars, sessVars, pullVars, unstageVars>>
    /\ UNCHANGED <<tracking, ignored>>

InfoNext ==
    \/ get_repository_info
    \/ get_status
    \/ get_commit_history
    \/ InfoEdit
    \/ InfoAdd
    \/ InfoCommit
    \/ InfoFetch
    \/ InfoDetach

PullNext ==
    \/ pull_changes
    \/ OriginPush
    \/ create_commit
    \/ stage_files
    \/ ExternalEdit

SpecPull == InitPull /\ [][PullNext]_vars

SpecInfo == InitInfo /\ [][InfoNext]_vars

(***************************************************************************)
(* Properties of Spec.                                                     *)
(***************************************************************************)
\* the ref name create_safety_ref gives the running command's snapshot
CurKey == <<cur.op, now>>

\* C1, as claimed: when amend, cherry-pick, revert or discard-all runs on a
\* repository whose HEAD is a commit c, the snapshot step changes nothing in
\* HEAD, the branches, the index or the working tree, and whenever the command
\* then changes any of them its safety ref is already there and targets c.
C1_SnapshotBeforeChange ==
    /\ [][cur = Idle /\ cur' # Idle => UNCHANGED repoCore]_vars
    /\ [][(cur.op \in Labels /\ cur.pre # 0 /\ repoCore' # repoCore)
            => /\ HeadCommit = cur.pre
               /\ CurKey \in DOMAIN safety
               /\ safety[CurKey] = cur.pre]_vars

\* C1, amended: the same for amend, cherry-pick and revert; discard-all alone
\* goes on to the forced checkout when its snapshot could not be written.
C1_SnapshotBeforeChangeUnlessDropped ==
    /\ [][cur = Idle /\ cur' # Idle => UNCHANGED repoCore]_vars
    /\ [][(cur.op \in Labels /\ cur.pre # 0 /\ repoCore' # repoCore)
            => /\ HeadCommit = cur.pre
               /\ \/ cur.op = "discard-all" /\ cur.snap = "failed"
                  \/ /\ CurKey \in DOMAIN safety
                     /\ safety[CurKey] = cur.pre]_vars

\* an amend has moved HEAD and its safety ref still names the old tip
C1_Witness ==
    /\ result.cmd = "amend"
    /\ result.status = "ok"
    /\ <<"amend", now>> \in DOMAIN safety
    /\ safety[<<"amend", now>>] # HeadCommit
    /\ objs[HeadCommit].parent = objs[safety[<<"amend", now>>]].parent

\* C2: every safety ref ever written still exists and still targets the commit
\* it was written with.
C2_SafetyRefsNeverOverwritten ==
    \A w \in written : w.key \in DOMAIN safety /\ safety[w.key] = w.target

\* C3: a command that returns a failure other than the conflicts outcome leaves
\* HEAD, the branches, the index, the working tree and the operation state as
\* they were (safety refs apart).
C3_FailureChangesNothing ==
    [][result'.status = "error" => UNCHANGED repoCore]_vars

\* C9: a cherry-pick or revert whose apply leaves conflicts reports the
\* conflicts outcome, creates no commit and leaves HEAD alone, and afterwards
\* get_conflicts is not empty and the operation state is ConflictPending.
C9_ConflictsReportedNoCommit ==
    /\ [][(result'.cmd \in {"cherry-pick", "revert"} /\ conflicts' # conflicts)
            => result'.status = "conflicts"]_vars
    /\ [][result'.status = "conflicts"
            => /\ result'.cmd \in {"cherry-pick", "revert"}
               /\ UNCHANGED <<objs, branches, head>>
               /\ get_conflicts' # {}
               /\ repoState' = result'.cmd
               /\ OpState' = "ConflictPending"]_vars

\* a cherry-pick has just ended in conflicts
C9_Witness ==
    /\ result.cmd = "cherry-pick"
    /\ result.status = "conflicts"
    /\ get_conflicts # {}
    /\ OpState = "ConflictPending"

\* C10: once a cherry-pick or revert is in ConflictPending, the resolve that
\* empties the conflict list brings the state machine back to Idle.
C10_ResolvingAllReturnsToIdle ==
    [][(OpState = "ConflictPending" /\ result'.cmd = "resolve"
          /\ result'.status = "ok" /\ get_conflicts' = {})
         => OpState' = "Idle"]_vars

\* C11: no step takes the cherry-pick/revert state machine from
\* ConflictPending straight to Idle: with conflicts unresolved, no command
\* cleans up the backend's operation state.
C11_ConflictPendingLeftOnlyByResolution ==
    [][OpState = "ConflictPending" => OpState' # "Idle"]_vars

\* the backend applies commit sha on HEAD and the result has no conflicts
AppliesCleanly(op, sha) ==
    LET base == IF op = "cherry-pick" THEN ParentTree(sha) ELSE TreeOf(sha)
        theirs == IF op = "cherry-pick" THEN TreeOf(sha) ELSE ParentTree(sha)
        a == BackendApply(base, theirs)
    IN  a.ok /\ \A p \in Paths : a.conflicts[p] = NoConflict

\* C12: when cherry-pick (revert) of commit t applies without conflicts on
\* HEAD h, one new commit is created, its parent is h, its message is t's
\* (Revert "t's"), HEAD moves to it and the operation state is cleared.
C12_CleanPickCommitsOnHead ==
    [][\A op \in {"cherry-pick", "revert"} :
         (cur.op = op /\ result'.cmd = op /\ result'.sha # 0
            /\ AppliesCleanly(op, result'.sha))
         => /\ result'.status = "ok"
            /\ Len(objs') = Len(objs) + 1
            /\ objs'[Len(objs')].parent = HeadCommit
            /\ objs'[Len(objs')].msg =
                 IF op = "cherry-pick" THEN objs[result'.sha].msg
                 ELSE RevertMessage(objs[result'.sha].msg)
            /\ HeadCommit' = Len(objs')
            /\ repoState' = "none"]_vars


\* C15: on a repository with commits a failed snapshot is not fatal: amend,
\* cherry-pick, revert and discard-all never return from their snapshot step,
\* they go on to their destructive step.
C15_SnapshotFailureNotFatal ==
    [][(cur = Idle /\ HeadCommit # 0 /\ result'.cmd \in Labels)
         => /\ cur'.op = result'.cmd
            /\ result'.status # "error"]_vars

\* C16, as claimed: every requested path that exists on disk is added to the
\* index and listed as staged, every other one is removed from the index and
\* gets a warning; each requested path is in exactly one of the two lists.
C16_StagePartition ==
    [][result'.cmd = "stage"
         => \A p \in result'.paths :
              /\ (p \in result'.staged) # (p \in result'.warnings)
              /\ worktree[p] # Absent
                   => /\ p \in result'.staged
                      /\ index'[p] = worktree[p]
                      /\ conflicts'[p] = NoConflict
              /\ worktree[p] = Absent
                   => /\ p \in result'.warnings
                      /\ index'[p] = Absent]_vars

\* C16, amended: a path on disk is either added to the index and listed as
\* staged or, when the backend fails to add it, left as it is in the index
\* and given a warning; a path missing on disk is removed from the index and
\* given a warning; each requested path is in exactly one of the two lists,
\* and the lists hold nothing else.
C16_StagePartitionWithAddFailures ==
    [][result'.cmd = "stage"
         => /\ result'.staged \cup result'.warnings = result'.paths
            /\ result'.staged \cap result'.warnings = {}
            /\ \A p \in result'.staged :
                 /\ worktree[p] # Absent
                 /\ index'[p] = worktree[p]
                 /\ conflicts'[p] = NoConflict
            /\ \A p \in result'.warnings :
                 IF worktree[p] = Absent
                 THEN index'[p] = Absent /\ conflicts'[p] = NoConflict
                 ELSE index'[p] = index[p] /\ conflicts'[p] = conflicts[p]
            /\ \A p \in Paths \ result'.paths :
                 index'[p] = index[p] /\ conflicts'[p] = conflicts[p]]_vars

\* a tracked file deleted on disk has been staged: it is gone from the index
\* and the result carries a warning for it
C16_Witness ==
    /\ result.cmd = "stage"
    /\ result.status = "ok"
    /\ result.paths = {"a.txt"}
    /\ result.warnings = {"a.txt"}
    /\ result.staged = {}
    /\ HeadTree["a.txt"] # Absent
    /\ worktree["a.txt"] = Absent
    /\ index["a.txt"] = Absent

\* C17: a stage request in which every path produced only a warning is
\* reported by the stage command as a failure.
C17_AllWarningsStageFails ==
    [][(result'.cmd = "stage" /\ result'.staged = {} /\ result'.warnings # {})
         => result'.status = "error"]_vars

\* C18, as claimed: the commit command creates a commit only if its staging
\* step staged at least one requested path; with nothing staged it fails and
\* HEAD and the commits are as before.
C18_CommitOnlyWhenStaged ==
    [][(result'.cmd = "commit" /\ result'.staged = {})
         => /\ result'.status = "error"
            /\ UNCHANGED <<objs, branches, head>>]_vars

\* C18, amended: when the staging step staged nothing and recorded a warning
\* the commit command fails, with HEAD and the commits as before; a commit
\* is created only if a requested path was staged or the request produced
\* no warning (an empty request commits the index as it is).
C18_CommitRefusedWhenOnlyWarnings ==
    [][result'.cmd = "commit"
         => /\ (result'.staged = {} /\ result'.warnings # {})
                 => /\ result'.status = "error"
                    /\ UNCHANGED <<objs, branches, head>>
            /\ (result'.status = "ok" \/ objs' # objs \/ branches' # branches)
                 => /\ result'.staged # {} \/ result'.warnings = {}
                    /\ result'.status = "ok"
                    /\ Len(objs') = Len(objs) + 1
                    /\ HeadCommit' = Len(objs')
                    /\ objs'[HeadCommit'].parent = HeadCommit]_vars

\* the commit command was asked to commit a file deleted on disk: it failed
\* and the tip is still the first commit
C18_Witness ==
    /\ result.cmd = "commit"
    /\ result.status = "error"
    /\ result.staged = {}
    /\ result.warnings = {"a.txt"}
    /\ worktree["a.txt"] = Absent
    /\ HeadCommit = 1
    /\ Len(objs) = 1

(***************************************************************************)
(* Properties of SpecWatcher.                                              *)
(***************************************************************************)
\* the events of burst b have all been answered: its sleep is over
BurstOver(b) == cb # b \/ wpc = "drain"

\* C5: a burst of events that all arrive within the delay that follows its
\* first event gets exactly one notification, and no debounce window emits
\* more than one: the notifications emitted are the bursts whose sleep is over.
C5_OneNotificationPerBurst ==
    /\ \A b \in 1..nb :
         /\ emitsOf[b] <= 1
         /\ BurstOver(b) => emitsOf[b] = 1
    /\ emitted = nb - (IF wpc = "sleep" THEN 1 ELSE 0)
    /\ \A i \in 1..Len(chan) : chan[i].burst # 0 => chan[i].burst = cb

\* five rapid events, one notification, and the thread is back in rx.recv()
C5_Witness ==
    /\ nb = 1
    /\ sizeOf[1] = 5
    /\ emitsOf[1] = 1
    /\ emitted = 1
    /\ wpc = "recv"
    /\ chan = <<>>

(***************************************************************************)
(* Properties of the session container (SpecSession)                       *)
(***************************************************************************)
\* a task is rewriting the repository at its path
Mutating(t) == tasks[t].pc \in {"amending", "pulling"}
\* a task holds a Repository handle it opened itself
OwnHandle(t) == tasks[t].pc = "pulling"

\* C4: no two operations that mutate one repository run interleaved, and
\* while one is in progress no other task holds a handle of its own on that
\* repository.
C4_MutationsSerialized ==
    \A t1, t2 \in Tasks :
        (t1 # t2 /\ Mutating(t1) /\ tasks[t1].path = tasks[t2].path)
            => ~Mutating(t2) /\ ~OwnHandle(t2)

\* C6: the handle and the watcher are replaced in one critical section: they
\* change only in steps of an open or clone that holds the lock before and
\* after the step, so whenever the lock is free the watcher, if any, is bound
\* to the repository of the handle.
C6_HandleAndWatcherReplacedTogether ==
    /\ [](lock = Free => state_watcher \in {0, state_repo})
    /\ [][(state_repo' # state_repo \/ state_watcher' # state_watcher)
            => /\ lock # Free
               /\ lock' = lock
               /\ tasks[lock].cmd \in {"open", "clone"}]_vars

\* an open replaced both: the session moved from the first repository and its
\* watcher to the second and its watcher
C6_Witness ==
    /\ sresult.cmd = "open"
    /\ sresult.status = "ok"
    /\ sresult.path = 2
    /\ lock = Free
    /\ state_repo = 2
    /\ state_watcher = 2

\* C7: after any open or clone the recent list holds at most ten entries and
\* no path twice.
C7_RecentListBounded ==
    /\ Len(recent_repositories) <= RecentCap
    /\ \A i, j \in 1..Len(recent_repositories) :
          recent_repositories[i] = recent_repositories[j] => i = j

\* C8: after a successful open or clone of a path, that path is the first
\* entry of the recent list, already present before or not.
C8_OpenedPathIsFirst ==
    [][(sresult'.cmd \in {"open", "clone"} /\ sresult'.status = "ok")
         => /\ recent_repositories' # <<>>
            /\ recent_repositories'[1] = sresult'.path]_vars

(***************************************************************************)
(* Properties of remote sync (SpecPull)                                    *)
(***************************************************************************)
\* C13: when local and origin have diverged, pull fails, attempts no merge
\* and leaves HEAD, index, working tree and operation state as they were.
C13_DivergedPullRefuses ==
    [][(result'.cmd = "pull" /\ Relation(HeadCommit, origin) = "diverged")
         => /\ result'.status = "error"
            /\ UNCHANGED repoCore]_vars

\* C14: when local is strictly behind origin and origin can be fetched, pull
\* succeeds, HEAD is the origin tip afterwards and the behind count is 0;
\* when local is up to date pull changes nothing.
C14_BehindPullFastForwards ==
    /\ [][(result'.cmd = "pull" /\ result'.message # "could not fetch"
             /\ Relation(HeadCommit, origin) = "behind")
            => /\ result'.status = "ok"
               /\ HeadCommit' = origin
               /\ BehindCount' = 0]_vars
    /\ [][(result'.cmd = "pull" /\ Relation(HeadCommit, origin) = "up-to-date")
            => UNCHANGED repoCore]_vars

\* the number of commits reachable from c
HistoryLength(c) == Cardinality(Ancestors(c))

\* a successful amend of tip t into n: n has the parents of t and the message
\* given, HEAD is n, the history is as long as before, and the safety ref this
\* amend wrote still names t
AmendedInPlace ==
    /\ objs'[HeadCommit'].parent = objs[HeadCommit].parent
    /\ objs'[HeadCommit'].msg = result'.message
    /\ HistoryLength(HeadCommit)' = HistoryLength(HeadCommit)
    /\ cur.snap = "written"
    /\ <<"amend", now>> \in DOMAIN safety'
    /\ safety'[<<"amend", now>>] = HeadCommit

\* C20, as claimed: a successful amend with message m on tip t replaces t by
\* a commit n different from t with t's parents and message m; HEAD is n, the
\* history reachable from HEAD is as long as before, and t is the target of
\* the safety ref this amend wrote.
C20_AmendReplacesTip ==
    [][(result'.cmd = "amend" /\ result'.status = "ok")
         => /\ HeadCommit' # HeadCommit
            /\ AmendedInPlace]_vars

\* C20, amended: the same, except that n is t itself exactly when t already
\* has message m, the tree of the index and the user's signature of this
\* second; otherwise n differs from t.
C20_AmendReplacesTipUnlessIdentical ==
    [][(result'.cmd = "amend" /\ result'.status = "ok")
         => /\ HeadCommit' = HeadCommit
                 <=> objs[HeadCommit] =
                       Signed(objs[HeadCommit].parent, result'.message, index)
            /\ AmendedInPlace]_vars

\* an amend has given the tip a message it did not have; the old tip is kept
\* by the safety ref of this second
C20_Witness ==
    /\ result.cmd = "amend"
    /\ result.status = "ok"
    /\ objs[HeadCommit].msg = result.message
    /\ <<"amend", now>> \in DOMAIN safety
    /\ safety[<<"amend", now>>] # HeadCommit
    /\ objs[safety[<<"amend", now>>]].msg # result.message
    /\ objs[safety[<<"amend", now>>]].parent = objs[HeadCommit].parent

\* C21: after a successful discard-all every file tracked in HEAD has its
\* HEAD content in the working tree, and HEAD points to the commit it pointed
\* to when the command was issued.
C21_DiscardAllRestoresHead ==
    [][(result'.cmd = "discard-all" /\ result'.status = "ok")
         => /\ \A p \in Paths :
                 HeadTree[p] # Absent => worktree'[p] = HeadTree[p]
            /\ HeadCommit' = HeadCommit
            /\ HeadCommit' = cur.pre]_vars

\* a discard-all has returned on a repository with commits, with the safety
\* ref of this second on HEAD and the tracked files as in HEAD
C21_Witness ==
    /\ result.cmd = "discard-all"
    /\ result.status = "ok"
    /\ HeadCommit # 0
    /\ <<"discard-all", now>> \in DOMAIN safety
    /\ safety[<<"discard-all", now>>] = HeadCommit
    /\ \A p \in Paths : HeadTree[p] # Absent /\ worktree[p] = HeadTree[p]

\* C22: the snapshot a destructive command takes on a repository with no
\* commit succeeds as a no-op: the command goes on past it and no safety ref
\* is written.
C22_SnapshotOnUnbornIsNoop ==
    [][(cur = Idle /\ HeadCommit = 0
          /\ (cur'.op \in Labels \/ result'.cmd \in Labels))
         => /\ cur'.op \in Labels
            /\ cur'.snap = "noop"
            /\ UNCHANGED <<safety, written>>]_vars

\* a destructive command is past its snapshot on a repository with no commit
C22_Witness ==
    /\ cur.op \in Labels
    /\ cur.snap = "noop"
    /\ HeadCommit = 0
    /\ safety = <<>>

\* C23: for every commit c of a returned history, on a branch whose upstream
\* tip is u, is_pushed(c) is true iff c is u or an ancestor of u; with no
\* upstream, or HEAD detached, is_pushed is false for every commit.
C23_PushedIffReachableFromUpstream ==
    [][(qresult'.cmd = "history" /\ qresult'.status = "ok")
         => \A e \in qresult'.commits :
              IF ~detached /\ tracking /\ remoteRef # 0
              THEN e.is_pushed <=> e.sha \in Ancestors(remoteRef)
              ELSE ~e.is_pushed]_vars

\* a history with a commit ahead of the upstream tip and a commit strictly
\* behind it
C23_Witness ==
    /\ qresult.cmd = "history"
    /\ qresult.status = "ok"
    /\ \E e \in qresult.commits : ~e.is_pushed
    /\ \E e \in qresult.commits : e.is_pushed /\ e.sha # remoteRef

\* C24: get_repository_info does not fail for want of a HEAD commit or an
\* upstream: with no commit it answers ahead = behind = 0 and the branch name
\* of HEAD's symbolic target without "refs/heads/"; with HEAD detached, no
\* upstream configured or the upstream ref missing it answers ahead = behind = 0.
C24_InfoWithoutHeadOrUpstream ==
    [][qresult'.cmd = "info"
         => /\ qresult'.status = "ok"
            /\ HeadCommit = 0
                 => /\ qresult'.ahead = 0
                    /\ qresult'.behind = 0
                    /\ qresult'.current_branch = <<head>>
            /\ (detached \/ ~tracking \/ remoteRef = 0)
                 => /\ qresult'.ahead = 0
                    /\ qresult'.behind = 0]_vars

\* the info of a repository without commits, or of one whose HEAD has moved on
\* while it is detached or has no upstream to compare with
C24_Witness ==
    /\ qresult.cmd = "info"
    /\ qresult.status = "ok"
    /\ qresult.ahead = 0
    /\ qresult.behind = 0
    /\ \/ HeadCommit = 0 /\ qresult.current_branch = <<"main">>
       \/ /\ HeadCommit # 0
          /\ HeadCommit # remoteRef
          /\ detached \/ ~tracking \/ remoteRef = 0

\* C25: the dirty flag of the repository info is true exactly when the status
\* scan get_status makes (untracked files included, untracked directories
\* recursed into) has an entry.
C25_DirtyIffStatusNonEmpty ==
    [][qresult'.cmd = "info"
         => (qresult'.is_dirty <=> statuses(GetStatusOptions) # {})]_vars

\* the flags that say the index differs from HEAD
IndexBits == {"INDEX_NEW", "INDEX_MODIFIED", "INDEX_DELETED", "INDEX_RENAMED",
              "INDEX_TYPECHANGE"}

\* the status the claimed precedence gives a set of flags
Precedence(st) ==
    IF "INDEX_NEW" \in st THEN "added"
    ELSE IF "INDEX_MODIFIED" \in st THEN "modified"
    ELSE IF "INDEX_DELETED" \in st THEN "deleted"
    ELSE IF "WT_NEW" \in st THEN "untracked"
    ELSE IF "WT_MODIFIED" \in st THEN "modified"
    ELSE IF "WT_DELETED" \in st THEN "deleted"
    ELSE "unknown"

\* C26: get_status reports one (status, staged) pair for the path of every
\* entry of the scan, whatever flags the entry has: the status the precedence
\* index-new > index-modified > index-deleted > wt-new > wt-modified >
\* wt-deleted gives, else unknown, and staged iff an index flag is set; an
\* entry reported untracked is never staged.
C26_OneStatusPerPathByPrecedence ==
    [][(qresult'.cmd = "status" /\ qresult'.status = "ok")
         => \A p \in Paths :
              LET st == Reported(p, GetStatusOptions)
                  es == {e \in qresult'.entries : e.path = p}
              IN /\ Cardinality(es) = (IF st = {} THEN 0 ELSE 1)
                 /\ \A e \in es :
                      /\ e.status = Precedence(st)
                      /\ e.staged <=> (st \cap IndexBits # {})
                      /\ e.status = "untracked" => ~e.staged]_vars

\* the thread of a watcher that has not been dropped is the thread of the
\* watcher the session holds
OnlyCurrentWatcherAlive ==
    \A i \in DOMAIN wthreads :
        ~wthreads[i].dropped
          => /\ i = Len(wthreads)
             /\ state_watcher = wthreads[i].path

\* C27: when open or clone replaces the handle the watcher it replaces is
\* stopped and its notification thread eventually ends, so that in the end
\* the only thread left is the one of the watcher the session holds.
C27_ReplacedWatcherThreadEnds ==
    /\ []OnlyCurrentWatcherAlive
    /\ \A i \in Threads :
         (i \in DOMAIN wthreads /\ wthreads[i].dropped)
           ~> (i \in DOMAIN wthreads /\ wthreads[i].pc = "exit")
    /\ <>[](\A i \in DOMAIN wthreads :
              wthreads[i].pc # "exit" => ~wthreads[i].dropped)

\* the thread of a replaced watcher has ended and the session holds the
\* watcher of its handle, whose thread runs
C27_Witness ==
    /\ \E i \in DOMAIN wthreads : wthreads[i].dropped /\ wthreads[i].pc = "exit"
    /\ \E j \in DOMAIN wthreads :
         /\ ~wthreads[j].dropped
         /\ wthreads[j].pc # "exit"
         /\ wthreads[j].path = state_watcher
    /\ state_watcher = state_repo
    /\ lock = Free

\* the commands that work on the open repository
RepoCommands == {"pull", "amend"}

\* C19: a repository command invoked while the session holds no handle
\* returns "No repository open", in an error kind other than the one backend
\* failures come in, and changes nothing in the session.
C19_NoRepositoryOpenIsDistinct ==
    [][(state_repo = 0 /\ sresult'.cmd \in RepoCommands)
         => /\ sresult'.status = "error"
            /\ sresult'.message = "No repository open"
            /\ sresult'.kind # BackendErrorKind
            /\ UNCHANGED <<lock, state_repo, state_watcher, settings, disk,
                           tasks>>]_vars

\* the characters a shell gives a meaning of its own (POSIX 2.2), whitespace
\* apart
ShellMetacharacters ==
    {"|", "&", ";", "<", ">", "(", ")", "$", Backquote, "\\", "\"", "'", "*", "?",
     "[", "#", "~", "=", "%"}

Whitespace == {" ", "\t", "\n"}

\* a name the branch commands have to refuse
UnsafeName(name) ==
    \/ chars(name) = <<>>
    \/ starts_with(name, "-")
    \/ \E ch \in Whitespace \cup ShellMetacharacters : contains(name, ch)

\* C28: create_branch and checkout_branch refuse a branch name that is empty,
\* starts with '-' or contains whitespace or a shell metacharacter: the
\* command returns "Invalid branch name", the error of the check made before
\* the backend is called, and no ref, HEAD, index or working tree changes.
C28_UnsafeBranchNameRejected ==
    [][(/\ result'.cmd \in {"create_branch", "checkout_branch"}
        /\ UnsafeName(result'.name))
         => /\ result'.status = "error"
            /\ result'.message = "Invalid branch name"
            /\ UNCHANGED <<objs, branches, head, index, worktree>>]_vars

\* create_commit returned the id of the commit it made
Committed == result'.cmd = "commit" /\ result'.status = "ok"

\* C29 as stated: the commit create_commit makes has the commit HEAD had for
\* its one parent whenever HEAD had one, has no parent only when the
\* repository holds no commit, and HEAD points to the id returned.
C29_OneParentUnlessRepositoryEmpty ==
    [][Committed
         => /\ result'.sha \in DOMAIN objs'
            /\ HeadCommit # 0 => objs'[result'.sha].parent = HeadCommit
            /\ objs'[result'.sha].parent = 0 => objs = <<>>
            /\ HeadCommit' = result'.sha]_vars

\* C29: the commit create_commit makes has the commit HEAD had for its one
\* parent, and no parent exactly when HEAD had no commit (its branch is
\* unborn, whatever other branches hold); HEAD stays on its branch and points
\* to the id returned.
C29_ParentIsPreviousHead ==
    [][Committed
         => /\ result'.sha \in DOMAIN objs'
            /\ objs'[result'.sha].parent = HeadCommit
            /\ head' = head
            /\ HeadCommit' = result'.sha]_vars

\* create_commit has made a commit on top of the one HEAD had, and HEAD
\* points to it
C29_Witness ==
    /\ result.cmd = "commit"
    /\ result.status = "ok"
    /\ HeadCommit = result.sha
    /\ objs[result.sha].parent # 0

\* open_repository has returned an error for the path it was called with
OpenFailed == sresult'.cmd = "open" /\ sresult'.status = "error"

\* C30: open_repository called with a path that is not on disk returns an
\* error and removes that path, and nothing else, from the recent list, the
\* entries left keeping their order, and clears last_opened when it is the
\* path; a failed open of a path that is on disk leaves the settings alone.
C30_FailedOpenPrunesMissingPathOnly ==
    [][/\ \A t \in Tasks :
            (tasks[t] = IdleTask /\ tasks'[t].cmd = "open")
              => disk[tasks'[t].path] # "missing"
       /\ OpenFailed =>
            LET path == sresult'.path
                other(p) == p # path
            IN IF disk[path] = "missing"
               THEN /\ recent_repositories' = SelectSeq(recent_repositories, other)
                    /\ last_opened_repository' =
                         IF last_opened_repository = path THEN 0
                         ELSE last_opened_repository
               ELSE UNCHANGED settings]_vars

\* C31: create_branch called with a name that passes the checks and that no
\* branch has, on a repository whose HEAD resolves to a commit h, succeeds:
\* the new branch points at h, the symbolic HEAD names it and still resolves
\* to h, and every branch that existed is where it was.
C31_CreateBranchOnHeadAndCheckout ==
    [][(/\ result'.cmd = "create_branch"
        /\ is_safe_git_arg(result'.name)
        /\ is_valid_ref_name(result'.name)
        /\ ~BranchExists(branches, result'.name)
        /\ HeadCommit # 0)
         => /\ result'.status = "ok"
            /\ BranchExists(branches', result'.name)
            /\ branches'[result'.name] = HeadCommit
            /\ head' = result'.name
            /\ HeadCommit' = HeadCommit
            /\ \A b \in DOMAIN branches :
                 BranchExists(branches, b) => branches'[b] = branches[b]]_vars

\* create_branch has made a branch next to an older one and checked it out,
\* in a working tree with a change that is not committed
C31_Witness ==
    /\ result.cmd = "create_branch"
    /\ result.status = "ok"
    /\ head = result.name
    /\ \E b \in DOMAIN branches : b # head /\ BranchExists(branches, b)
    /\ worktree # HeadTree

\* a task is between the block that reads the path and the credentials and
\* the end of its transfer (clone: the re-acquisition of the lock)
InTransfer(t) ==
    tasks[t].pc \in {"transfer", "install", "spawned", "pulling", "pushing",
                     "fetching"}

\* C32: clone, fetch, pull and push do not hold the session lock while
\* their transfer runs; of the four only clone takes the lock again, to
\* install the handle, the watcher and the settings; so the lock is free, or
\* held by another command, whenever a transfer is in flight.
C32_NoLockDuringTransfer ==
    \A t \in Tasks :
        /\ InTransfer(t) => lock # t
        /\ lock = t /\ tasks[t].cmd \in {"clone", "pull", "push", "fetch"}
             => /\ tasks[t].cmd = "clone"
                /\ tasks[t].pc \in {"set_repo", "set_watcher", "settings"}

\* a push is in flight while another command holds the session lock
C32_Witness ==
    \E t \in Tasks, u \in Tasks :
        /\ tasks[t].pc = "pushing"
        /\ u # t
        /\ lock = u
        /\ tasks[u].cmd = "open"

\* C33: resolve_conflict stages what the working tree holds at the path and
\* drops the path's conflict, and what it does to the index and to the
\* conflicts is what it does with use_ours = TRUE and with use_ours = FALSE.
C33_ResolveStagesDiskWhateverTheFlag ==
    [][result'.cmd = "resolve"
         => \A path \in result'.paths, use_ours \in BOOLEAN :
              /\ index' = resolve(path, use_ours).index
              /\ conflicts' = resolve(path, use_ours).conflicts
              /\ (result'.status = "ok") = resolve(path, use_ours).ok
              /\ result'.status = "ok"
                   => /\ index'[path] = worktree[path]
                      /\ conflicts'[path] = NoConflict
                      /\ \A q \in Paths \ {path} :
                           /\ index'[q] = index[q]
                           /\ conflicts'[q] = conflicts[q]]_vars

\* the conflict a cherry-pick or revert left has been resolved with the file
\* on disk, the operation still being in progress
C33_Witness ==
    /\ result.cmd = "resolve"
    /\ result.status = "ok"
    /\ repoState # "none"
    /\ ~has_conflicts
    /\ \E path \in result.paths : index[path] = worktree[path]

\* C34: unstage_files leaves every requested path the backend does not fail
\* on with the index entry of HEAD's tree, or without an entry when HEAD has
\* no commit, and leaves the other paths alone: a path the backend fails on
\* keeps the others from being reset in the bulk call, not in the retry.
C34_UnstageResetsEveryGoodPath ==
    [][uresult'.cmd = "unstage"
         => LET done == uresult'.paths \ uresult'.bad
            IN IF uresult'.status = "ok"
               THEN \A p \in UnstagePaths :
                      uindex'[p] = IF p \notin done THEN uindex[p]
                                   ELSE IF ~uhead.commit THEN Absent
                                   ELSE uhead.tree[p]
               ELSE ~uhead.commit /\ uindex' = uindex]_vars

\* unstage_files was called with a path the backend failed on and with one
\* it did not fail on: the second is as in HEAD, the first is still staged
C34_Witness ==
    /\ uresult.cmd = "unstage"
    /\ uresult.status = "ok"
    /\ uhead.commit
    /\ \E p \in uresult.paths \ uresult.bad, q \in uresult.paths \cap uresult.bad :
         /\ uindex[p] = uhead.tree[p]
         /\ uindex[q] # uhead.tree[q]

\* thread i emits "git-state-changed" in this step
Emits(i) ==
    /\ i \in DOMAIN wthreads
    /\ wthreads[i].pc = "sleep"
    /\ wthreads'[i].pc = "recv"

\* the session has a repository open and no watcher for it
Unwatched == state_repo # 0 /\ state_watcher = 0

\* C35: when start_watcher gives no watcher (no .git directory, or the
\* watcher cannot be built) open and clone go on: the handle of the path is
\* installed with no watcher and the command moves on to the settings; and
\* while the session is without a watcher no notification is emitted.
C35_NoWatcherNoNotification ==
    [][/\ \A t \in Tasks :
            (tasks[t].pc = "set_watcher" /\ tasks'[t].pc # "set_watcher"
               /\ state_watcher' = 0)
              => /\ state_repo' = tasks[t].path
                 /\ tasks'[t].pc = "settings"
       /\ Unwatched => \A i \in Threads : ~Emits(i)]_vars

\* the channel holds a filesystem event the thread has not taken yet
EventWaiting == \E i \in DOMAIN chan : chan[i].kind = "ok"

\* C36: every filesystem event delivered to the channel is followed by a
\* notification: whenever an event waits in the channel, the number of
\* notifications emitted so far is exceeded later on.
C36_EveryEventIsNotified ==
    \A n \in 0..MaxEvents :
        (EventWaiting /\ emitted = n) ~> (emitted > n)

\* this step is the error return of an open or clone command
InstallCommandFails ==
    /\ sresult'.cmd \in {"open", "clone"}
    /\ sresult'.status = "error"

\* what the session held before the command that returns in this step took
\* the lock it installs under; a command that returns without having taken it
\* is compared with the state it returns from
HeldBeforeCommand ==
    IF lock \in Tasks /\ lock' = Free THEN tasks[lock].before ELSE Held

\* C37: an open or clone command that returns an error leaves the handle and
\* the watcher of the session exactly as they were before the command.
C37_FailedOpenOrCloneLeavesSession ==
    [][InstallCommandFails => Held' = HeldBeforeCommand]_vars

Agree ==
    /\ state_watcher \in {0, state_repo}
    /\ last_opened_repository \in {0, state_repo}

\* an open or clone leaves its critical section having installed its path
Installs(t) ==
    /\ tasks[t].pc = "settings"
    /\ tasks'[t] = IdleTask

====
